---- MODULE Spec2Model ----
(***************************************************************************)
(* Verification model of the vonoi repository: the Sutherland-Hodgman      *)
(* clippers (src/lib/poly_clip.ts clipPolygon, polygonClip of the          *)
(* WeightedVoronoi module), the lifted-hull power diagram                  *)
(* (computePowerDiagram / render_weighted_voronoi) and the relaxation      *)
(* driver (WeightedVoronoi.compute).                                       *)
(*                                                                         *)
(* A JavaScript number is modelled as a pair <<n, d>>: the rational n/d in *)
(* lowest terms with d > 0, or <<1,0>> = +Infinity, <<-1,0>> = -Infinity,  *)
(* <<0,0>> = NaN.  Arithmetic is exact (no rounding, no signed zero).      *)
(***************************************************************************)
EXTENDS Integers, Sequences, FiniteSets, TLC

\* ------------------------------------------------------------------ numbers

Abs(k) == IF k < 0 THEN -k ELSE k

Sgn(k) == IF k < 0 THEN -1 ELSE IF k > 0 THEN 1 ELSE 0

RECURSIVE GCD(_, _)
GCD(a, b) == IF b = 0 THEN a ELSE GCD(b, a % b)

\* the number n/d, d >= 0, in canonical form
Norm(n, d) ==
    IF d = 0 THEN <<Sgn(n), 0>>
    ELSE IF d = 1 THEN <<n, 1>>
    ELSE LET g == GCD(Abs(n), d) IN <<n \div g, d \div g>>

Num(k) == <<k, 1>>

NaN == <<0, 0>>

Infinity == <<1, 0>>

IsNaN(a) == a = NaN

IsFinite(a) == a[2] # 0

RNeg(a) == <<-a[1], a[2]>>

RAdd(a, b) ==
    IF a[2] = 0 /\ b[2] = 0
    THEN (IF a[1] = b[1] THEN a ELSE NaN)
    ELSE Norm(a[1] * b[2] + b[1] * a[2], a[2] * b[2])

RSub(a, b) == RAdd(a, RNeg(b))

RMul(a, b) == Norm(a[1] * b[1], a[2] * b[2])

\* a / b; x / 0 is +-Infinity by the sign of x, 0 / 0 is NaN
RDiv(a, b) ==
    IF b[1] < 0 THEN Norm(-(a[1] * b[2]), a[2] * (-b[1]))
    ELSE Norm(a[1] * b[2], a[2] * b[1])

\* a < b; every comparison with NaN is false
RLt(a, b) ==
    IF IsNaN(a) \/ IsNaN(b) THEN FALSE
    ELSE IF a[2] = 0 /\ b[2] = 0 THEN a[1] < b[1]
    ELSE a[1] * b[2] < b[1] * a[2]

RGt(a, b) == RLt(b, a)

RLe(a, b) == ~IsNaN(a) /\ ~IsNaN(b) /\ ~RLt(b, a)

RAbs(a) == <<Abs(a[1]), a[2]>>

\* JavaScript truthiness of a number: neither 0 nor NaN
Truthy(a) == a[1] # 0

\* ------------------------------------------------------------------ bounds

\* the clip inputs have coordinates 0..ClipGrid
ClipGrid == 2

\* the sites of a diagram have coordinates 0..SiteGrid, and there are at most
\* MaxSites of them
SiteGrid == 2

MaxSites == 4

\* ------------------------------------------------------------------ state

VARIABLES
    impl,              \* which routine runs: "clipPolygon" or "polygonClip"
    polygon,           \* the subject polygon argument, as passed
    clippingBoundary,  \* the clip polygon argument, as passed
    outputList,        \* clipPolygon's outputList / polygonClip's subject
    clipI,             \* the clip-edge loop counter i
    closed,            \* polygonClip: polygonClosed(subject) at entry
    clipN,             \* polygonClip: n, the number of clip edges
    clipA,             \* polygonClip: a, the start of the current clip edge
    pc                 \* "call", "loop", "done" or "threw"

clipVars == <<impl, polygon, clippingBoundary, outputList, clipI, closed, clipN, clipA, pc>>

VARIABLES
    pdImpl,            \* "power_diagram" (render_weighted_voronoi) or "WeightedVoronoi"
    sites,             \* the site list argument
    boundingPolygon,   \* render_weighted_voronoi's boundingPolygon / omega
    dualPoints,        \* computePowerDiagram's dualPoints / transformedSites
    hull,              \* the hull routine's call: [invoked, threw, faces]
    lower_faces,       \* computePowerDiagram's lower_faces
    cells,             \* the cells pushed so far; the diagram once returned
    pdK,               \* the loop counter over sites, faces or cells
    pdPc               \* control position of the diagram pipeline

pdVars == <<pdImpl, sites, boundingPolygon, dualPoints, hull, lower_faces, cells, pdK, pdPc>>

VARIABLES
    thisSites,         \* WeightedVoronoi.sites
    thisOmega,         \* WeightedVoronoi.omega
    thisEthreshold,    \* WeightedVoronoi.ethreshold
    rDiagram,          \* compute's diagram
    rAdapted,          \* compute's adaptedSites
    rI,                \* compute's loop counter i
    rError,            \* compute's error
    rIterations,       \* the number of loop bodies begun so far
    rPc                \* control position of compute

relaxVars ==
    <<thisSites, thisOmega, thisEthreshold, rDiagram, rAdapted, rI, rError, rIterations, rPc>>

VARIABLES
    fGrid,             \* map.grid: fGrid[x + 1][y + 1] is the data of the node at (x, y)
    fTown,             \* the town argument of expand_influence
    fQueue,            \* queue: the positions of the queued nodes
    fLast,             \* last_node: its position
    fPc,               \* control position of expand_influence
    fTurn              \* the parity of the number of steps expand_influence has taken

floodVars == <<fGrid, fTown, fQueue, fLast, fPc, fTurn>>

VARIABLES
    tInitial,          \* initial_node of trace_boundary: its position, or NoNode
    tNode,             \* node of the tracing loop: its position, or NoNode
    tExplored,         \* explored: the positions of its nodes
    tPath,             \* exploration_path: the positions of its nodes
    tPc,               \* control position of trace_boundary
    tTurn              \* the parity of the number of steps trace_boundary has taken

traceVars == <<tInitial, tNode, tExplored, tPath, tPc, tTurn>>

VARIABLES
    wSites,            \* this.sites of the beach-line diagram
    wArcs,             \* the Arc objects made so far: wArcs[a] is arc a
    beachLine,         \* this.beachLine: the arcs, by number
    wEvents,           \* this.events
    wMade,             \* the number of DiagramEvent objects made so far
    wRemovals,         \* the calls of removeParabolicArc so far: arc and indexOf(arc)
    wOut,              \* the lengths of voronoiVertices and voronoiEdges
    wPc                \* control position of computeDiagram

sweepVars == <<wSites, wArcs, beachLine, wEvents, wMade, wRemovals, wOut, wPc>>

vars == <<clipVars, pdVars, relaxVars, floodVars, traceVars, sweepVars>>

\* ------------------------------------------------------- poly_clip.ts

\* a Point2D {x, y} / a Point [x, y] with integer coordinates
MkPoint2D(pt) == [x |-> Num(pt[1]), y |-> Num(pt[2])]

MkPoint(pt) == <<Num(pt[1]), Num(pt[2])>>

\* JavaScript's undefined, where an array is read out of range
Undefined == <<>>

\* inside without its right-hand side: the side of the horizontal through edgeStart
insideUnshifted(p, edgeStart, edgeEnd) ==
    RGt(RMul(RSub(edgeEnd.x, edgeStart.x), RSub(p.y, edgeStart.y)), Num(0))

inside(p, edgeStart, edgeEnd) ==
    RGt(RMul(RSub(edgeEnd.x, edgeStart.x), RSub(p.y, edgeStart.y)),
        RMul(RSub(edgeEnd.y, edgeStart.y), RSub(p.x, edgeStart.x)))

computeIntersection(start, end, edgeStart, edgeEnd) ==
    LET dx == RSub(end.x, start.x)
        dy == RSub(end.y, start.y)
        edgeDx == RSub(edgeEnd.x, edgeStart.x)
        edgeDy == RSub(edgeEnd.y, edgeStart.y)
        denom == RSub(RMul(dx, edgeDy), RMul(dy, edgeDx))
    IN  IF denom = Num(0) THEN [x |-> Num(0), y |-> Num(0)]
        ELSE LET t == RDiv(RSub(RMul(RSub(start.x, edgeStart.x), edgeDy),
                                RMul(RSub(start.y, edgeStart.y), edgeDx)),
                           denom)
             IN  [x |-> RAdd(start.x, RMul(t, dx)), y |-> RAdd(start.y, RMul(t, dy))]

\* the body of `for (const E of inputList)`, from element k on, S the previous point
RECURSIVE clipPass(_, _, _, _, _, _)
clipPass(inputList, k, S, out, edgeStart, edgeEnd) ==
    IF k > Len(inputList) THEN out
    ELSE LET E == inputList[k]
             out2 == IF inside(E, edgeStart, edgeEnd)
                     THEN (IF ~inside(S, edgeStart, edgeEnd)
                           THEN out \o <<computeIntersection(S, E, edgeStart, edgeEnd), E>>
                           ELSE Append(out, E))
                     ELSE IF inside(S, edgeStart, edgeEnd)
                     THEN Append(out, computeIntersection(S, E, edgeStart, edgeEnd))
                     ELSE out
         IN  clipPass(inputList, k + 1, E, out2, edgeStart, edgeEnd)

\* one iteration of `for (let i = 0; i < clippingBoundary.length; i++)`
clipEdge(inputList, boundary, k) ==
    LET edgeStart == boundary[k + 1]
        edgeEnd == boundary[((k + 1) % Len(boundary)) + 1]
        S == IF Len(inputList) = 0 THEN Undefined ELSE inputList[Len(inputList)]
    IN  clipPass(inputList, 1, S, <<>>, edgeStart, edgeEnd)

\* the array inputList as a pass that pushed to it, not to a new array,
\* would leave it
inputListPushedTo(inputList, boundary, k) == inputList \o clipEdge(inputList, boundary, k)

\* the array inputList after the pass: `outputList = []` makes a new array
\* and the pass pushes to that one only
inputListAfterPass(inputList, boundary, k) == inputList

\* ------------------------------------------------------- polygonClip

polygonInside(p, pa, pb) ==
    RLt(RMul(RSub(pb[1], pa[1]), RSub(p[2], pa[2])),
        RMul(RSub(pb[2], pa[2]), RSub(p[1], pa[1])))

polygonIntersect(c, d, pa, pb) ==
    LET x1 == c[1]
        x3 == pa[1]
        x21 == RSub(d[1], x1)
        x43 == RSub(pb[1], x3)
        y1 == c[2]
        y3 == pa[2]
        y21 == RSub(d[2], y1)
        y43 == RSub(pb[2], y3)
        ua == RDiv(RSub(RMul(x43, RSub(y1, y3)), RMul(y43, RSub(x1, x3))),
                   RSub(RMul(y43, x21), RMul(x43, y21)))
    IN  <<RAdd(x1, RMul(ua, x21)), RAdd(y1, RMul(ua, y21))>>

\* reading coordinates[0][0] of an empty array is a TypeError
polygonClosedThrows(coordinates) ==
    Len(coordinates) = 0 \/ coordinates[1] = Undefined \/ coordinates[Len(coordinates)] = Undefined

polygonClosed(coordinates) ==
    LET ca == coordinates[1]
        cb == coordinates[Len(coordinates)]
    IN  ~(Truthy(RSub(ca[1], cb[1])) \/ Truthy(RSub(ca[2], cb[2])))

\* array read: undefined out of range
At(arr, k) == IF k >= 1 /\ k <= Len(arr) THEN arr[k] ELSE Undefined

\* the inner `while (++j < m)` from element j on (1-based); c the previous point.
\* The result is [threw, subject].
RECURSIVE polygonPass(_, _, _, _, _, _, _)
polygonPass(input, j, m, c, out, pa, pb) ==
    IF j > m THEN [threw |-> FALSE, subject |-> out]
    ELSE LET d == At(input, j) IN
         IF d = Undefined \/ c = Undefined \/ pa = Undefined \/ pb = Undefined
         THEN [threw |-> TRUE, subject |-> out]
         ELSE LET intersection == polygonIntersect(c, d, pa, pb)
                  out2 == IF polygonInside(d, pa, pb)
                          THEN (IF ~polygonInside(c, pa, pb) /\ IsFinite(intersection[1])
                                THEN out \o <<intersection, d>>
                                ELSE Append(out, d))
                          ELSE IF polygonInside(c, pa, pb) /\ IsFinite(intersection[1])
                          THEN Append(out, intersection)
                          ELSE out
              IN  polygonPass(input, j + 1, m, d, out2, pa, pb)

\* one iteration of `while (++i < n)`: the pass against edge (pa, clip[k]) and
\* the closing push
\* `if (closed) subject.push(subject[0])` after a pass with outcome r
polygonClosePush(r, isClosed) ==
    IF r.threw THEN r
    ELSE [threw |-> FALSE,
          subject |-> IF isClosed THEN Append(r.subject, At(r.subject, 1)) ELSE r.subject]

polygonEdgePass(input, m, pa, pb, isClosed) ==
    polygonClosePush(polygonPass(input, 1, m, At(input, m), <<>>, pa, pb), isClosed)

polygonEdge(input, clip, k, isClosed, pa) ==
    polygonEdgePass(input, Len(input) - (IF isClosed THEN 1 ELSE 0), pa, At(clip, k + 1),
                    isClosed)

\* ------------------------------------------------------- clip inputs

GridPts == (0 .. ClipGrid) \X (0 .. ClipGrid)

LexLe(p, q) == p[1] < q[1] \/ (p[1] = q[1] /\ p[2] <= q[2])

SubjectLens == {0, 1, 2, 3, 4}

\* vertex lists that start at their smallest vertex and repeat none, except
\* that a ring may close on its first vertex
IsSubject(s) ==
    /\ \A k \in 1 .. Len(s) : LexLe(s[1], s[k])
    /\ \A j, k \in 1 .. Len(s) :
          (j < k /\ s[j] = s[k]) => (j = 1 /\ k = Len(s) /\ k >= 3)

Subjects == {s \in UNION {[1 .. k -> GridPts] : k \in SubjectLens} : IsSubject(s)}

Reverse(s) == [k \in 1 .. Len(s) |-> s[Len(s) + 1 - k]]

ClipShapes ==
    {<< <<0, 0>>, <<ClipGrid, 0>>, <<ClipGrid, ClipGrid>>, <<0, ClipGrid>> >>,
     << <<0, 0>>, <<ClipGrid, 1>>, <<1, ClipGrid>> >>,
     << <<1, 0>>, <<ClipGrid, 1>>, <<1, ClipGrid>>, <<0, 1>> >>}

Clips ==
    ClipShapes \cup {Reverse(s) : s \in ClipShapes}
        \cup {<< >>, << <<0, 0>> >>, << <<0, 0>>, <<ClipGrid, ClipGrid>> >>}

MapSeq(s, Op(_)) == [k \in 1 .. Len(s) |-> Op(s[k])]

\* ------------------------------------------------------- clip state machine

\* no beach-line sweep is running
IdleSweep ==
    /\ wSites = << >>
    /\ wArcs = << >>
    /\ beachLine = << >>
    /\ wEvents = << >>
    /\ wMade = 0
    /\ wRemovals = << >>
    /\ wOut = [vertices |-> 0, edges |-> 0]
    /\ wPc = "idle"

\* an undefined node
NoNode == [x |-> -1, y |-> -1]

\* no boundary is being traced
IdleTrace ==
    /\ tInitial = NoNode
    /\ tNode = NoNode
    /\ tExplored = {}
    /\ tPath = << >>
    /\ tPc = "idle"
    /\ tTurn = 0

\* no flood fill is running
IdleFlood ==
    /\ fGrid = << >>
    /\ fTown = [population |-> NaN, pos |-> [x |-> NaN, y |-> NaN]]
    /\ fQueue = << >>
    /\ fLast = [x |-> 0, y |-> 0]
    /\ fPc = "idle"
    /\ fTurn = 0

\* no diagram pipeline is running
IdlePD ==
    /\ pdImpl = "none"
    /\ sites = << >>
    /\ boundingPolygon = << >>
    /\ dualPoints = << >>
    /\ hull = [invoked |-> FALSE, threw |-> FALSE, faces |-> << >>]
    /\ lower_faces = << >>
    /\ cells = << >>
    /\ pdK = 0
    /\ pdPc = "idle"

\* no relaxation driver is running
IdleRelax ==
    /\ thisSites = << >>
    /\ thisOmega = << >>
    /\ thisEthreshold = NaN
    /\ rDiagram = << >>
    /\ rAdapted = << >>
    /\ rI = 0
    /\ rError = NaN
    /\ rIterations = 0
    /\ rPc = "idle"

InitClip ==
    /\ impl \in {"clipPolygon", "polygonClip"}
    /\ \E s \in Subjects, c \in Clips :
          /\ polygon = (IF impl = "clipPolygon" THEN MapSeq(s, MkPoint2D) ELSE MapSeq(s, MkPoint))
          /\ clippingBoundary = (IF impl = "clipPolygon" THEN MapSeq(c, MkPoint2D) ELSE MapSeq(c, MkPoint))
    /\ outputList = << >>
    /\ clipI = 0
    /\ closed = FALSE
    /\ clipN = 0
    /\ clipA = Undefined
    /\ pc = "call"
    /\ IdlePD
    /\ IdleRelax
    /\ IdleFlood
    /\ IdleTrace
    /\ IdleSweep

\* poly_clip.ts: `let outputList = polygon`
ClipPolygonCall ==
    /\ pc = "call" /\ impl = "clipPolygon"
    /\ outputList' = polygon
    /\ pc' = "loop"
    /\ UNCHANGED <<impl, polygon, clippingBoundary, clipI, closed, clipN, clipA>>

\* one clip edge; in the first pass inputList is the caller's array polygon
\* itself (`let outputList = polygon`, `const inputList = outputList`)
ClipPolygonEdge ==
    /\ pc = "loop" /\ impl = "clipPolygon"
    /\ clipI < Len(clippingBoundary)
    /\ outputList' = clipEdge(outputList, clippingBoundary, clipI)
    /\ polygon' = IF clipI = 0
                  THEN inputListAfterPass(outputList, clippingBoundary, clipI)
                  ELSE polygon
    /\ clipI' = clipI + 1
    /\ UNCHANGED <<impl, clippingBoundary, closed, clipN, clipA, pc>>

ClipPolygonReturn ==
    /\ pc = "loop" /\ impl = "clipPolygon"
    /\ ~(clipI < Len(clippingBoundary))
    /\ pc' = "done"
    /\ UNCHANGED <<impl, polygon, clippingBoundary, outputList, clipI, closed, clipN, clipA>>

\* polygonClip's declarations: closed, n and a; polygonClosed may throw
PolygonClipCall ==
    /\ pc = "call" /\ impl = "polygonClip"
    /\ outputList' = polygon
    /\ IF polygonClosedThrows(polygon) \/ polygonClosedThrows(clippingBoundary)
       THEN /\ pc' = "threw"
            /\ UNCHANGED <<closed, clipN, clipA>>
       ELSE /\ closed' = polygonClosed(polygon)
            /\ clipN' = Len(clippingBoundary) - (IF polygonClosed(clippingBoundary) THEN 1 ELSE 0)
            /\ clipA' = At(clippingBoundary, clipN')
            /\ pc' = "loop"
    /\ UNCHANGED <<impl, polygon, clippingBoundary, clipI>>

PolygonClipEdge ==
    /\ pc = "loop" /\ impl = "polygonClip"
    /\ clipI < clipN
    /\ LET r == polygonEdge(outputList, clippingBoundary, clipI, closed, clipA)
       IN  /\ outputList' = r.subject
           /\ pc' = IF r.threw THEN "threw" ELSE "loop"
    /\ clipA' = At(clippingBoundary, clipI + 1)
    /\ clipI' = clipI + 1
    /\ UNCHANGED <<impl, polygon, clippingBoundary, closed, clipN>>

PolygonClipReturn ==
    /\ pc = "loop" /\ impl = "polygonClip"
    /\ ~(clipI < clipN)
    /\ pc' = "done"
    /\ UNCHANGED <<impl, polygon, clippingBoundary, outputList, clipI, closed, clipN, clipA>>

NextClip ==
    \/ ClipPolygonCall /\ UNCHANGED <<pdVars, relaxVars, floodVars, traceVars, sweepVars>>
    \/ ClipPolygonEdge /\ UNCHANGED <<pdVars, relaxVars, floodVars, traceVars, sweepVars>>
    \/ ClipPolygonReturn /\ UNCHANGED <<pdVars, relaxVars, floodVars, traceVars, sweepVars>>
    \/ PolygonClipCall /\ UNCHANGED <<pdVars, relaxVars, floodVars, traceVars, sweepVars>>
    \/ PolygonClipEdge /\ UNCHANGED <<pdVars, relaxVars, floodVars, traceVars, sweepVars>>
    \/ PolygonClipReturn /\ UNCHANGED <<pdVars, relaxVars, floodVars, traceVars, sweepVars>>

SpecClip == InitClip /\ [][NextClip]_vars

\* ------------------------------------------------------- clip properties

Range(s) == {s[k] : k \in 1 .. Len(s)}

\* twice the signed area of the triangle (s, e, p): positive when p is to the
\* left of the directed line s -> e
Cross(p, s, e) ==
    RSub(RMul(RSub(e.x, s.x), RSub(p.y, s.y)), RMul(RSub(e.y, s.y), RSub(p.x, s.x)))

EdgeEnd(b, k) == b[(k % Len(b)) + 1]

\* b is a convex polygon listed counter-clockwise / clockwise
CCWConvex(b) ==
    /\ Len(b) >= 3
    /\ \A k, j \in 1 .. Len(b) : RLe(Num(0), Cross(b[j], b[k], EdgeEnd(b, k)))
    /\ \E k, j \in 1 .. Len(b) : RLt(Num(0), Cross(b[j], b[k], EdgeEnd(b, k)))

CWConvex(b) ==
    /\ Len(b) >= 3
    /\ \A k, j \in 1 .. Len(b) : RLe(Cross(b[j], b[k], EdgeEnd(b, k)), Num(0))
    /\ \E k, j \in 1 .. Len(b) : RLt(Cross(b[j], b[k], EdgeEnd(b, k)), Num(0))

\* p lies in the convex polygon b or on its boundary
InOrOn(p, b) ==
    IF CCWConvex(b)
    THEN \A k \in 1 .. Len(b) : RLe(Num(0), Cross(p, b[k], EdgeEnd(b, k)))
    ELSE \A k \in 1 .. Len(b) : RLe(Cross(p, b[k], EdgeEnd(b, k)), Num(0))

\* twice the signed area of a polygon of Point2D
RECURSIVE Shoelace(_, _)
Shoelace(b, k) ==
    IF k > Len(b) THEN Num(0)
    ELSE RAdd(RSub(RMul(b[k].x, EdgeEnd(b, k).y), RMul(EdgeEnd(b, k).x, b[k].y)),
              Shoelace(b, k + 1))

ClipPolygonDone == pc = "done" /\ impl = "clipPolygon"

\* a polygon in the proper sense: at least 3 vertices enclosing a non-zero area
ProperPolygon(b) == Len(b) >= 3 /\ Shoelace(b, 1) # Num(0)

\* C3 (as claimed, for a counter-clockwise convex clip polygon and a proper
\* subject polygon): when clipPolygon returns, every vertex of the result lies
\* within or on the boundary of the clip polygon.
C3_ClipContainment ==
    (ClipPolygonDone /\ CCWConvex(clippingBoundary) /\ ProperPolygon(polygon))
        => \A k \in 1 .. Len(outputList) : InOrOn(outputList[k], clippingBoundary)

\* C4 (as claimed, for a counter-clockwise clip polygon and a subject of
\* non-zero area): clipping a subject all of whose vertices lie in or on the
\* clip polygon returns exactly the subject's vertex set.
C4_ContainedUnchanged ==
    (/\ ClipPolygonDone
     /\ CCWConvex(clippingBoundary)
     /\ ProperPolygon(polygon)
     /\ \A k \in 1 .. Len(polygon) : InOrOn(polygon[k], clippingBoundary))
        => Range(outputList) = Range(polygon)

\* the bounding polygon of a call: clipPolygon's clippingBoundary; polygonClip
\* is called as polygonClip(face, omega), so its subject
BoundingPolygon == IF impl = "clipPolygon" THEN clippingBoundary ELSE polygon

\* C10 (as claimed): a call whose bounding polygon has fewer than 3 vertices
\* ends in an error, never in a returned polygon.
C10_FewVerticesFailLoudly ==
    (pc \in {"done", "threw"} /\ Len(BoundingPolygon) < 3) => pc = "threw"

\* ------------------------------------------------------- power_diagram.ts

\* a === b on numbers: NaN equals nothing
REq(u, v) == ~IsNaN(u) /\ ~IsNaN(v) /\ u = v

\* Math.sqrt, on the weights of the model (perfect squares, negatives, NaN)
Sqrt(w) ==
    IF IsNaN(w) \/ w[1] < 0 THEN NaN
    ELSE IF w[2] = 0 THEN Infinity
    ELSE Num(CHOOSE r \in 0 .. w[1] : r * r = w[1])

transformSiteToDualSpace(site) ==
    LET r == Sqrt(site.weight)
    IN  [x |-> site.x,
         y |-> site.y,
         z |-> RSub(RAdd(RMul(site.x, site.x), RMul(site.y, site.y)), RMul(r, r))]

\* delta without the halving of a and b: the pole of the plane scaled by two
deltaUnhalved(plane) ==
    [x |-> plane.a, y |-> plane.b, z |-> RNeg(plane.c)]

delta(plane) ==
    [x |-> RDiv(plane.a, Num(2)), y |-> RDiv(plane.b, Num(2)), z |-> RNeg(plane.c)]

computeNormal(p1, p2, p3) ==
    LET v1 == RSub(p2.x, p1.x)
        v2 == RSub(p2.y, p1.y)
        v3 == RSub(p2.z, p1.z)
        w1 == RSub(p3.x, p1.x)
        w2 == RSub(p3.y, p1.y)
        w3 == RSub(p3.z, p1.z)
    IN  [x |-> RSub(RMul(v2, w3), RMul(v3, w2)),
         y |-> RSub(RMul(v3, w1), RMul(v1, w3)),
         z |-> RSub(RMul(v1, w2), RMul(v2, w1))]

mapTo2D(point) == [x |-> point.x, y |-> point.y]

\* calculatePlaneCoefficients' gamma, the divisor of its coefficients
planeGamma(P1, P2, P3) ==
    RAdd(RAdd(RMul(P1.x, RSub(P2.y, P3.y)), RMul(P2.x, RSub(P3.y, P1.y))),
         RMul(P3.x, RSub(P1.y, P2.y)))

calculatePlaneCoefficients(P1, P2, P3) ==
    LET alpha == RAdd(RAdd(RMul(P1.y, RSub(P2.z, P3.z)), RMul(P2.y, RSub(P3.z, P1.z))),
                      RMul(P3.y, RSub(P1.z, P2.z)))
        beta == RAdd(RAdd(RMul(P1.z, RSub(P2.x, P3.x)), RMul(P2.z, RSub(P3.x, P1.x))),
                     RMul(P3.z, RSub(P1.x, P2.x)))
        gamma == RAdd(RAdd(RMul(P1.x, RSub(P2.y, P3.y)), RMul(P2.x, RSub(P3.y, P1.y))),
                      RMul(P3.x, RSub(P1.y, P2.y)))
        dlt == RAdd(RAdd(RMul(P1.x, RSub(RMul(P2.y, P3.z), RMul(P3.y, P2.z))),
                         RMul(P2.x, RSub(RMul(P3.y, P1.z), RMul(P1.y, P3.z)))),
                    RMul(P3.x, RSub(RMul(P1.y, P2.z), RMul(P2.y, P1.z))))
    IN  [a |-> RDiv(RNeg(alpha), gamma),
         b |-> RDiv(RNeg(beta), gamma),
         c |-> RDiv(dlt, gamma),
         d |-> RDiv(dlt, gamma)]

\* filter / map over a sequence
RECURSIVE KeepIdx(_, _, _)
KeepIdx(s, idx, k) ==
    IF k > Len(s) THEN << >>
    ELSE (IF k \in idx THEN <<s[k]>> ELSE << >>) \o KeepIdx(s, idx, k + 1)

Filter(s, Test(_)) == KeepIdx(s, {k \in 1 .. Len(s) : Test(s[k])}, 1)

\* hull.map(f => f.map(i => dualPoints[i]))
hullTriangles(hullFaces, points) ==
    [f \in 1 .. Len(hullFaces) |-> [v \in 1 .. 3 |-> points[hullFaces[f][v]]]]

\* no filter at all: every hull triangle is kept
lowerFacesUnfiltered(triangles) == triangles

\* the filter with <= for <: vertical faces are kept too
lowerFacesOrVertical(triangles) ==
    LET IsLowerOrVertical(f) == RLe(computeNormal(f[1], f[2], f[3]).z, Num(0))
    IN  Filter(triangles, IsLowerOrVertical)

\* hull_triangles.filter(f => computeNormal(...f).z < 0)
lowerFaces(triangles) ==
    LET IsLower(f) == RLt(computeNormal(f[1], f[2], f[3]).z, Num(0))
    IN  Filter(triangles, IsLower)

\* the cell without the filter on the site: a vertex for every lower face
cellOfEveryFace(site, lower) ==
    [f \in 1 .. Len(lower) |->
        mapTo2D(delta(calculatePlaneCoefficients(lower[f][1], lower[f][2], lower[f][3])))]

\* the body of `for (const site of sites)`: the cell pushed for one site
cellOf(site, lower) ==
    LET Touches(f) == \E v \in 1 .. 3 : REq(f[v].x, site.x) /\ REq(f[v].y, site.y)
        relevantFaces == Filter(lower, Touches)
    IN  [f \in 1 .. Len(relevantFaces) |->
            mapTo2D(delta(calculatePlaneCoefficients(relevantFaces[f][1],
                                                     relevantFaces[f][2],
                                                     relevantFaces[f][3])))]

\* ------------------------------------------------------- quickhull3d

\* The third-party hull routine, by its contract: the faces of the convex hull
\* of the points as index triples whose right-hand normal points outward.

Vec(p, q) == <<RSub(q.x, p.x), RSub(q.y, p.y), RSub(q.z, p.z)>>

CrossV(u, v) ==
    <<RSub(RMul(u[2], v[3]), RMul(u[3], v[2])),
      RSub(RMul(u[3], v[1]), RMul(u[1], v[3])),
      RSub(RMul(u[1], v[2]), RMul(u[2], v[1]))>>

DotV(u, v) == RAdd(RAdd(RMul(u[1], v[1]), RMul(u[2], v[2])), RMul(u[3], v[3]))

FaceNormal(points, f) ==
    CrossV(Vec(points[f[1]], points[f[2]]), Vec(points[f[1]], points[f[3]]))

\* positive when points[s] is on the outer side of face f
Side(points, f, s) == DotV(FaceNormal(points, f), Vec(points[f[1]], points[s]))

\* oriented index triples, each listed from its smallest index
Triples(m) ==
    {f \in (1 .. m) \X (1 .. m) \X (1 .. m) : f[1] < f[2] /\ f[1] < f[3] /\ f[2] # f[3]}

AllFinite(points) ==
    \A k \in 1 .. Len(points) :
        IsFinite(points[k].x) /\ IsFinite(points[k].y) /\ IsFinite(points[k].z)

ZeroV == <<Num(0), Num(0), Num(0)>>

\* no three points on a line, no four in a plane
GeneralPosition(points) ==
    /\ AllFinite(points)
    /\ \A f \in Triples(Len(points)) :
          /\ FaceNormal(points, f) # ZeroV
          /\ \A s \in 1 .. Len(points) :
                (s # f[1] /\ s # f[2] /\ s # f[3]) => Side(points, f, s) # Num(0)

\* a triangle with every other point behind or in its plane
IsSupporting(points, f) ==
    /\ FaceNormal(points, f) # ZeroV
    /\ \A s \in 1 .. Len(points) : RLe(Side(points, f, s), Num(0))

FaceLe(f, g) ==
    \/ f[1] < g[1]
    \/ (f[1] = g[1] /\ f[2] < g[2])
    \/ (f[1] = g[1] /\ f[2] = g[2] /\ f[3] <= g[3])

RECURSIVE SortFaces(_)
SortFaces(S) ==
    IF S = {} THEN << >>
    ELSE LET first == CHOOSE f \in S : \A g \in S : FaceLe(f, g)
         IN  <<first>> \o SortFaces(S \ {first})

\* the index triples over m points, in order
TripleSeq(m) == SortFaces(Triples(m))

\* the supporting triangles of the points, in order
SupportingFaces(points) ==
    LET Supports(f) == IsSupporting(points, f)
    IN  Filter(TripleSeq(Len(points)), Supports)

\* the sub-sequences of a sequence of faces
SubSeqs(fs) ==
    {KeepIdx(fs, idx, 1) : idx \in SUBSET (1 .. Len(fs))}

QhThrows == [threw |-> TRUE, faces |-> << >>]

QhFaces(fs) == [threw |-> FALSE, faces |-> fs]

\* the outcomes of qh(points): fewer than 4 points fail (an error or no face);
\* for a non-finite coordinate nothing is promised: an error or any triangles;
\* points in general position have one hull, enumerated in some order; for
\* any other input the routine may fail or return any of the supporting
\* triangles
qh(points) ==
    IF Len(points) < 4 THEN {QhThrows, QhFaces(<< >>)}
    ELSE IF ~AllFinite(points)
    THEN {QhThrows} \cup {QhFaces(fs) : fs \in SubSeqs(TripleSeq(Len(points)))}
    ELSE IF GeneralPosition(points)
    THEN LET hullFaces == SupportingFaces(points)
         IN  {QhFaces(hullFaces), QhFaces(Reverse(hullFaces))}
    ELSE {QhThrows} \cup {QhFaces(fs) : fs \in SubSeqs(SupportingFaces(points))}

\* ------------------------------------------------------- diagram inputs

Weights == {1, 9}

SitePts == (0 .. SiteGrid) \X (0 .. SiteGrid)

RECURSIVE SortPts(_)
SortPts(S) ==
    IF S = {} THEN << >>
    ELSE LET first == CHOOSE p \in S : \A q \in S : LexLe(p, q)
         IN  <<first>> \o SortPts(S \ {first})

\* distinct grid positions, in decreasing order
PositionLists ==
    {Reverse(SortPts(S)) : S \in {T \in SUBSET SitePts : Cardinality(T) <= MaxSites}}

MkSite(pt, w) == [x |-> Num(pt[1]), y |-> Num(pt[2]), weight |-> Num(w)]

GridSiteLists ==
    UNION {{[k \in 1 .. Len(l) |-> MkSite(l[k], ws[k])] : ws \in [1 .. Len(l) -> Weights]} :
           l \in PositionLists}

\* the bounding polygon used with the grid sites
GridBounding == << <<0, 0>>, <<SiteGrid, 0>>, <<SiteGrid, SiteGrid>>, <<0, SiteGrid>> >>

\* Scenario A of the specification
ScenarioASites ==
    <<MkSite(<<0, 0>>, 1), MkSite(<<10, 0>>, 1), MkSite(<<0, 10>>, 1), MkSite(<<10, 10>>, 1)>>

ScenarioABounding == << <<-5, -5>>, <<15, -5>>, <<15, 15>>, <<-5, 15>> >>

\* the hull routine is called on proper input: fewer than 4 sites, or lifted
\* points in general position (Scenario A, whose lifted points are coplanar,
\* is the one degenerate input)
NonDegenerate(ss) ==
    Len(ss) < 4 \/ GeneralPosition([k \in 1 .. Len(ss) |-> transformSiteToDualSpace(ss[k])])

DiagramInputs ==
    {[sites |-> ss, bounding |-> GridBounding] : ss \in {l \in GridSiteLists : NonDegenerate(l)}}
        \cup {[sites |-> ScenarioASites, bounding |-> ScenarioABounding]}

\* ------------------------------------------------------- WeightedVoronoi

\* sites.map(site => [site.x, site.y, site.x ** 2 + site.y ** 2 - site.weight])
transformedSite(site) ==
    [x |-> site.x,
     y |-> site.y,
     z |-> RSub(RAdd(RMul(site.x, site.x), RMul(site.y, site.y)), site.weight)]

\* polygonClip(clip, subject), run to its end: [threw, subject]
RECURSIVE polygonClipLoop(_, _, _, _, _, _)
\* the rest of the loop once the pass against edge k has the outcome r
polygonClipRest(clip, r, k, m, isClosed) ==
    IF r.threw THEN r
    ELSE polygonClipLoop(clip, r.subject, k + 1, m, isClosed, At(clip, k + 1))

polygonClipLoop(clip, subject, k, m, isClosed, pa) ==
    IF ~(k < m) THEN [threw |-> FALSE, subject |-> subject]
    ELSE polygonClipRest(clip, polygonEdge(subject, clip, k, isClosed, pa), k, m, isClosed)

polygonClipFrom(clip, subject, m) ==
    polygonClipLoop(clip, subject, 0, m, polygonClosed(subject), At(clip, m))

polygonClip(clip, subject) ==
    IF polygonClosedThrows(subject) \/ polygonClosedThrows(clip)
    THEN [threw |-> TRUE, subject |-> subject]
    ELSE polygonClipFrom(clip, subject, Len(clip) - (IF polygonClosed(clip) THEN 1 ELSE 0))

\* the body of convexHull.map(face => ...): one face, clipped
faceCell(face, points, omega) ==
    LET vertices == [v \in 1 .. Len(face) |-> points[face[v]]]
        lowerEnvelopeFace == [v \in 1 .. Len(vertices) |-> <<vertices[v].x, vertices[v].y>>]
    IN  polygonClip(lowerEnvelopeFace, omega)

\* ------------------------------------------------------- diagram state machine

IdleClip ==
    /\ impl = "none"
    /\ polygon = << >>
    /\ clippingBoundary = << >>
    /\ outputList = << >>
    /\ clipI = 0
    /\ closed = FALSE
    /\ clipN = 0
    /\ clipA = Undefined
    /\ pc = "idle"

InitPD ==
    /\ pdImpl \in {"power_diagram", "WeightedVoronoi"}
    /\ \E in \in DiagramInputs :
          /\ sites = in.sites
          /\ boundingPolygon = (IF pdImpl = "power_diagram"
                                THEN MapSeq(in.bounding, MkPoint2D)
                                ELSE MapSeq(in.bounding, MkPoint))
    /\ dualPoints = << >>
    /\ hull = [invoked |-> FALSE, threw |-> FALSE, faces |-> << >>]
    /\ lower_faces = << >>
    /\ cells = << >>
    /\ pdK = 0
    /\ pdPc = "call"
    /\ IdleClip
    /\ IdleRelax
    /\ IdleFlood
    /\ IdleTrace
    /\ IdleSweep

\* render_weighted_voronoi calls computePowerDiagram(sites): the lifting
PDLift ==
    /\ pdPc = "call" /\ pdImpl = "power_diagram"
    /\ dualPoints' = [k \in 1 .. Len(sites) |-> transformSiteToDualSpace(sites[k])]
    /\ pdPc' = "qh"
    /\ UNCHANGED <<pdImpl, sites, boundingPolygon, hull, lower_faces, cells, pdK>>

\* const hull = qh(dualPoints.map(p => [p.x, p.y, p.z]))
PDHull ==
    /\ pdPc = "qh" /\ pdImpl = "power_diagram"
    /\ \E o \in qh(dualPoints) :
          /\ hull' = [invoked |-> TRUE, threw |-> o.threw, faces |-> o.faces]
          /\ pdPc' = IF o.threw THEN "threw" ELSE "filter"
    /\ UNCHANGED <<pdImpl, sites, boundingPolygon, dualPoints, lower_faces, cells, pdK>>

\* hull_triangles and lower_faces
PDLowerFaces ==
    /\ pdPc = "filter"
    /\ lower_faces' = lowerFaces(hullTriangles(hull.faces, dualPoints))
    /\ pdPc' = "cells"
    /\ UNCHANGED <<pdImpl, sites, boundingPolygon, dualPoints, hull, cells, pdK>>

\* one iteration of `for (const site of sites)`
PDCell ==
    /\ pdPc = "cells"
    /\ pdK < Len(sites)
    /\ cells' = Append(cells, cellOf(sites[pdK + 1], lower_faces))
    /\ pdK' = pdK + 1
    /\ UNCHANGED <<pdImpl, sites, boundingPolygon, dualPoints, hull, lower_faces, pdPc>>

\* `return cells`, back in render_weighted_voronoi (which clips nothing)
PDReturn ==
    /\ pdPc = "cells"
    /\ ~(pdK < Len(sites))
    /\ pdPc' = "render"
    /\ pdK' = 0
    /\ UNCHANGED <<pdImpl, sites, boundingPolygon, dualPoints, hull, lower_faces, cells>>

\* drawing the bounding polygon reads boundingPolygon[0].x
RenderBounding ==
    /\ pdPc = "render"
    /\ pdPc' = IF Len(boundingPolygon) = 0 THEN "threw" ELSE "draw"
    /\ UNCHANGED <<pdImpl, sites, boundingPolygon, dualPoints, hull, lower_faces, cells, pdK>>

\* one cell of `diagram.map((cell, index) => ...)`, which reads cell[0].x
RenderCell ==
    /\ pdPc = "draw"
    /\ pdK < Len(cells)
    /\ IF Len(cells[pdK + 1]) = 0
       THEN pdPc' = "threw" /\ pdK' = pdK
       ELSE pdPc' = "draw" /\ pdK' = pdK + 1
    /\ UNCHANGED <<pdImpl, sites, boundingPolygon, dualPoints, hull, lower_faces, cells>>

RenderDone ==
    /\ pdPc = "draw"
    /\ ~(pdK < Len(cells))
    /\ pdPc' = "done"
    /\ UNCHANGED <<pdImpl, sites, boundingPolygon, dualPoints, hull, lower_faces, cells, pdK>>

\* WeightedVoronoi.computePowerDiagram(sites, omega): the short-circuit and
\* the lifting
WVCall ==
    /\ pdPc = "call" /\ pdImpl = "WeightedVoronoi"
    /\ IF Len(sites) < 4
       THEN /\ cells' = << >>
            /\ pdPc' = "done"
            /\ UNCHANGED dualPoints
       ELSE /\ dualPoints' = [k \in 1 .. Len(sites) |-> transformedSite(sites[k])]
            /\ pdPc' = "qh"
            /\ UNCHANGED cells
    /\ UNCHANGED <<pdImpl, sites, boundingPolygon, hull, lower_faces, pdK>>

\* const convexHull = qh(transformedSites, { skipTriangulation: false })
WVHull ==
    /\ pdPc = "qh" /\ pdImpl = "WeightedVoronoi"
    /\ \E o \in qh(dualPoints) :
          /\ hull' = [invoked |-> TRUE, threw |-> o.threw, faces |-> o.faces]
          /\ pdPc' = IF o.threw THEN "threw" ELSE "clip"
    /\ UNCHANGED <<pdImpl, sites, boundingPolygon, dualPoints, lower_faces, cells, pdK>>

\* the clipped face r becomes the next cell, unless the clip threw
WVCellPush(r) ==
    IF r.threw
    THEN pdPc' = "threw" /\ UNCHANGED <<cells, pdK>>
    ELSE /\ cells' = Append(cells, r.subject)
         /\ pdK' = pdK + 1
         /\ pdPc' = "clip"

\* one face of `convexHull.map(face => ...)`
WVCell ==
    /\ pdPc = "clip"
    /\ pdK < Len(hull.faces)
    /\ WVCellPush(faceCell(hull.faces[pdK + 1], dualPoints, boundingPolygon))
    /\ UNCHANGED <<pdImpl, sites, boundingPolygon, dualPoints, hull, lower_faces>>

WVReturn ==
    /\ pdPc = "clip"
    /\ ~(pdK < Len(hull.faces))
    /\ pdPc' = "done"
    /\ UNCHANGED <<pdImpl, sites, boundingPolygon, dualPoints, hull, lower_faces, cells, pdK>>

NextPD ==
    \/ PDLift /\ UNCHANGED <<clipVars, relaxVars, floodVars, traceVars, sweepVars>>
    \/ PDHull /\ UNCHANGED <<clipVars, relaxVars, floodVars, traceVars, sweepVars>>
    \/ PDLowerFaces /\ UNCHANGED <<clipVars, relaxVars, floodVars, traceVars, sweepVars>>
    \/ PDCell /\ UNCHANGED <<clipVars, relaxVars, floodVars, traceVars, sweepVars>>
    \/ PDReturn /\ UNCHANGED <<clipVars, relaxVars, floodVars, traceVars, sweepVars>>
    \/ RenderBounding /\ UNCHANGED <<clipVars, relaxVars, floodVars, traceVars, sweepVars>>
    \/ RenderCell /\ UNCHANGED <<clipVars, relaxVars, floodVars, traceVars, sweepVars>>
    \/ RenderDone /\ UNCHANGED <<clipVars, relaxVars, floodVars, traceVars, sweepVars>>
    \/ WVCall /\ UNCHANGED <<clipVars, relaxVars, floodVars, traceVars, sweepVars>>
    \/ WVHull /\ UNCHANGED <<clipVars, relaxVars, floodVars, traceVars, sweepVars>>
    \/ WVCell /\ UNCHANGED <<clipVars, relaxVars, floodVars, traceVars, sweepVars>>
    \/ WVReturn /\ UNCHANGED <<clipVars, relaxVars, floodVars, traceVars, sweepVars>>

SpecPD == InitPD /\ [][NextPD]_vars

\* ------------------------------------------------------- relaxation driver

IMAX == 50

\* Math.PI, by a rational near it
PI == <<22, 7>>

\* Math.min: NaN if either argument is NaN
MathMin(u, v) == IF IsNaN(u) \/ IsNaN(v) THEN NaN ELSE IF RLt(v, u) THEN v ELSE u

\* polygon[(i + 1) % polygon.length], for the 1-based index k = i + 1
NextVertex(poly, k) == poly[(k % Len(poly)) + 1]

\* the loop of computePolygonArea from vertex k on
RECURSIVE areaLoop(_, _, _)
areaLoop(poly, k, area) ==
    IF k > Len(poly) THEN area
    ELSE LET p1 == poly[k]
             p2 == NextVertex(poly, k)
         IN  areaLoop(poly, k + 1,
                      RAdd(area, RSub(RMul(p1[1], p2[2]), RMul(p2[1], p1[2]))))

computePolygonArea(poly) == RDiv(RAbs(areaLoop(poly, 1, Num(0))), Num(2))

\* the loop of computeCentroid from vertex k on: <<centroidX, centroidY>>
RECURSIVE centroidLoop(_, _, _)
centroidLoop(poly, k, acc) ==
    IF k > Len(poly) THEN acc
    ELSE LET p1 == poly[k]
             p2 == NextVertex(poly, k)
             factor == RSub(RMul(p1[1], p2[2]), RMul(p2[1], p1[2]))
         IN  centroidLoop(poly, k + 1,
                          <<RAdd(acc[1], RMul(RAdd(p1[1], p2[1]), factor)),
                            RAdd(acc[2], RMul(RAdd(p1[2], p2[2]), factor))>>)

computeCentroid(poly) ==
    LET area == computePolygonArea(poly)
        sums == centroidLoop(poly, 1, <<Num(0), Num(0)>>)
        scale == RDiv(Num(1), RMul(Num(6), area))
    IN  <<RMul(sums[1], scale), RMul(sums[2], scale)>>

\* distanceToLine, as the square of the distance it returns: the square root
\* it takes is undone by its one reader, `distanceToBoundary ** 2`
distanceToLine(point, p1, p2) ==
    LET dx == RSub(p2[1], p1[1])
        dy == RSub(p2[2], p1[2])
        t == RDiv(RAdd(RMul(RSub(point[1], p1[1]), dx), RMul(RSub(point[2], p1[2]), dy)),
                  RAdd(RMul(dx, dx), RMul(dy, dy)))
        closestPoint == <<RAdd(p1[1], RMul(t, dx)), RAdd(p1[2], RMul(t, dy))>>
        dx2 == RSub(point[1], closestPoint[1])
        dy2 == RSub(point[2], closestPoint[2])
    IN  RAdd(RMul(dx2, dx2), RMul(dy2, dy2))

\* the loop of distanceToClosestEdge from vertex k on (squared distances)
RECURSIVE distanceLoop(_, _, _, _)
distanceLoop(point, poly, k, minDistance) ==
    IF k > Len(poly) THEN minDistance
    ELSE distanceLoop(point, poly, k + 1,
                      MathMin(minDistance, distanceToLine(point, poly[k], NextVertex(poly, k))))

distanceToClosestEdge(point, poly) == distanceLoop(point, poly, 1, Infinity)

\* the callback of sites.map in adaptPositionsAndWeights, for a defined cell
adaptSite(site, cell, count) ==
    LET centroid == computeCentroid(cell)
        distanceSq == distanceToClosestEdge(centroid, cell)
        targetArea == RDiv(Num(1), Num(count))
        areaRatio == RDiv(Num(Len(cell)), RMul(PI, distanceSq))
        newWeight == RMul(site.weight, RSub(Num(1), RDiv(targetArea, areaRatio)))
    IN  [x |-> centroid[1], y |-> centroid[2], weight |-> newWeight]

\* adaptPositionsAndWeights(sites, diagram): [threw, sites]; diagram[index]
\* is undefined past the end of the diagram, and reading its length is a
\* TypeError
adaptPositionsAndWeights(ss, diag) ==
    IF Len(ss) > Len(diag)
    THEN [threw |-> TRUE, sites |-> << >>]
    ELSE [threw |-> FALSE,
          sites |-> [k \in 1 .. Len(ss) |-> adaptSite(ss[k], diag[k], Len(ss))]]

\* the loop of calculateTotalError from site k on
RECURSIVE errorLoop(_, _, _, _)
errorLoop(count, diag, k, totalError) ==
    IF k > count THEN totalError
    ELSE LET area == computePolygonArea(diag[k])
             targetArea == RDiv(Num(1), Num(count))
         IN  errorLoop(count, diag, k + 1, RAdd(totalError, RAbs(RSub(area, targetArea))))

\* calculateTotalError(sites, diagram): [threw, error]; a TypeError as above
calculateTotalError(ss, diag) ==
    IF Len(ss) > Len(diag)
    THEN [threw |-> TRUE, error |-> NaN]
    ELSE [threw |-> FALSE, error |-> errorLoop(Len(ss), diag, 1, Num(0))]

\* convexHull.map(face => ...) from face k on: [threw, cells]
RECURSIVE faceCells(_, _, _, _, _)
faceCells(faces, points, omega, k, out) ==
    IF k > Len(faces) THEN [threw |-> FALSE, cells |-> out]
    ELSE LET r == faceCell(faces[k], points, omega)
         IN  IF r.threw THEN [threw |-> TRUE, cells |-> out]
             ELSE faceCells(faces, points, omega, k + 1, Append(out, r.subject))

\* the outcomes of WeightedVoronoi.computePowerDiagram(sites, omega), one
\* for each outcome of the hull routine: [threw, cells]
computePowerDiagram(ss, omega) ==
    IF Len(ss) < 4 THEN {[threw |-> FALSE, cells |-> << >>]}
    ELSE LET transformedSites == MapSeq(ss, transformedSite)
         IN  {IF o.threw THEN [threw |-> TRUE, cells |-> << >>]
              ELSE faceCells(o.faces, transformedSites, omega, 1, << >>) :
                 o \in qh(transformedSites)}

\* the condition of `for (let i = 0; i < IMAX; i++)`
forCondition(k) == k < IMAX

\* the break test with its operands exchanged
breakTestExchanged(err, threshold) == RLt(threshold, err)

\* the condition of `if (error < this.ethreshold) break`
breakTest(err, threshold) == RLt(err, threshold)

\* ------------------------------------------------------- driver inputs

\* the positions Math.random() * 100 is drawn from
RandomPts == {<<0, 0>>, <<2, 0>>, <<1, 1>>, <<0, 2>>, <<2, 1>>}

\* initializeDiagram's initialSites for a site list of the given length
initialSites(count) ==
    {[k \in 1 .. count |-> MkSite(l[k], 1)] :
        l \in {Reverse(SortPts(S)) : S \in {T \in SUBSET RandomPts : Cardinality(T) = count}}}

\* the site lists the driver is constructed with: 0..MaxSites sites of weight 1
DriverSites ==
    {[k \in 1 .. m |-> MkSite(<<k % (SiteGrid + 1), k \div (SiteGrid + 1)>>, 1)] :
        m \in 0 .. MaxSites}

\* the default threshold 0.001, and a loose one
Thresholds == {<<1, 1000>>, Num(2)}

\* ------------------------------------------------------- driver state machine

InitRelax ==
    /\ thisSites \in DriverSites
    /\ thisOmega = MapSeq(GridBounding, MkPoint)
    /\ thisEthreshold \in Thresholds
    /\ rDiagram = << >>
    /\ rAdapted = << >>
    /\ rI = 0
    /\ rError = NaN
    /\ rIterations = 0
    /\ rPc = "call"
    /\ IdleClip
    /\ IdlePD
    /\ IdleFlood
    /\ IdleTrace
    /\ IdleSweep

\* compute(): let error = Infinity; let diagram = this.initializeDiagram()
RelaxCall ==
    /\ rPc = "call"
    /\ rError' = Infinity
    /\ rI' = 0
    /\ \E initial \in initialSites(Len(thisSites)) :
          \E o \in computePowerDiagram(initial, thisOmega) :
             IF o.threw
             THEN rPc' = "threw" /\ UNCHANGED rDiagram
             ELSE rPc' = "loop" /\ rDiagram' = o.cells
    /\ UNCHANGED <<thisSites, thisOmega, thisEthreshold, rAdapted, rIterations>>

\* the loop test i < IMAX
RelaxLoop ==
    /\ rPc = "loop"
    /\ IF forCondition(rI)
       THEN rPc' = "adapt" /\ rIterations' = rIterations + 1
       ELSE rPc' = "done" /\ UNCHANGED rIterations
    /\ UNCHANGED <<thisSites, thisOmega, thisEthreshold, rDiagram, rAdapted, rI, rError>>

\* const adaptedSites = this.adaptPositionsAndWeights(this.sites, diagram)
RelaxAdapt ==
    /\ rPc = "adapt"
    /\ LET r == adaptPositionsAndWeights(thisSites, rDiagram)
       IN  IF r.threw
           THEN rPc' = "threw" /\ UNCHANGED rAdapted
           ELSE rPc' = "diagram" /\ rAdapted' = r.sites
    /\ UNCHANGED <<thisSites, thisOmega, thisEthreshold, rDiagram, rI, rError, rIterations>>

\* diagram = this.computePowerDiagram(adaptedSites, this.omega)
RelaxDiagram ==
    /\ rPc = "diagram"
    /\ \E o \in computePowerDiagram(rAdapted, thisOmega) :
          IF o.threw
          THEN rPc' = "threw" /\ UNCHANGED rDiagram
          ELSE rPc' = "error" /\ rDiagram' = o.cells
    /\ UNCHANGED <<thisSites, thisOmega, thisEthreshold, rAdapted, rI, rError, rIterations>>

\* error = this.calculateTotalError(adaptedSites, diagram)
RelaxError ==
    /\ rPc = "error"
    /\ LET r == calculateTotalError(rAdapted, rDiagram)
       IN  IF r.threw
           THEN rPc' = "threw" /\ UNCHANGED rError
           ELSE rPc' = "test" /\ rError' = r.error
    /\ UNCHANGED <<thisSites, thisOmega, thisEthreshold, rDiagram, rAdapted, rI, rIterations>>

\* if (error < this.ethreshold) break; otherwise i++
RelaxTest ==
    /\ rPc = "test"
    /\ IF breakTest(rError, thisEthreshold)
       THEN rPc' = "done" /\ UNCHANGED rI
       ELSE rPc' = "loop" /\ rI' = rI + 1
    /\ UNCHANGED <<thisSites, thisOmega, thisEthreshold, rDiagram, rAdapted, rError, rIterations>>

NextRelax ==
    \/ RelaxCall /\ UNCHANGED <<clipVars, pdVars, floodVars, traceVars, sweepVars>>
    \/ RelaxLoop /\ UNCHANGED <<clipVars, pdVars, floodVars, traceVars, sweepVars>>
    \/ RelaxAdapt /\ UNCHANGED <<clipVars, pdVars, floodVars, traceVars, sweepVars>>
    \/ RelaxDiagram /\ UNCHANGED <<clipVars, pdVars, floodVars, traceVars, sweepVars>>
    \/ RelaxError /\ UNCHANGED <<clipVars, pdVars, floodVars, traceVars, sweepVars>>
    \/ RelaxTest /\ UNCHANGED <<clipVars, pdVars, floodVars, traceVars, sweepVars>>

\* control moves on from a position inside compute()
RelaxAdvance ==
    /\ rPc \in {"call", "loop", "adapt", "diagram", "error", "test"}
    /\ rPc' \in {"loop", "adapt", "diagram", "error", "test", "done", "threw"}

\* compute() is one sequential call: while it has not ended it keeps running
SpecRelax == InitRelax /\ [][NextRelax]_vars /\ WF_rPc(RelaxAdvance)

\* ------------------------------------------------------- diagram properties

\* the diagram computation has returned its cells to its caller
DiagramReturned ==
    IF pdImpl = "power_diagram"
    THEN pdPc \in {"render", "draw", "done"} \/ (pdPc = "threw" /\ hull.invoked /\ ~hull.threw)
    ELSE pdPc = "done"

\* the diagram computation is over, with a result or an error
DiagramEnded == DiagramReturned \/ pdPc = "threw"

\* coordinates of a cell vertex: a Point2D {x, y} or a Point [x, y]
VX(v) == IF pdImpl = "power_diagram" THEN v.x ELSE v[1]

VY(v) == IF pdImpl = "power_diagram" THEN v.y ELSE v[2]

Sq(u) == RMul(u, u)

\* the power distance |v - site|^2 - weight
PowerDistance(vx, vy, site) ==
    RSub(RAdd(Sq(RSub(vx, site.x)), Sq(RSub(vy, site.y))), site.weight)

\* every vertex of the cell lies in the closed power cell of sites[k]: no
\* site has a smaller power distance to it
IsCellOf(cell, k) ==
    \A v \in 1 .. Len(cell) : \A j \in 1 .. Len(sites) :
        RLe(PowerDistance(VX(cell[v]), VY(cell[v]), sites[k]),
            PowerDistance(VX(cell[v]), VY(cell[v]), sites[j]))

\* C1 (as claimed): for 4 or more non-degenerate sites the diagram has one
\* cell per site, and the cell at index k is the cell of sites[k].
C1_OneCellPerSite ==
    (DiagramReturned /\ Len(sites) >= 4 /\ NonDegenerate(sites))
        => /\ Len(cells) = Len(sites)
           /\ \A k \in 1 .. Len(cells) : IsCellOf(cells[k], k)

\* C2 (as claimed): with fewer than 4 sites the diagram computation returns
\* an empty result, does not call the hull routine and does not throw.
C2_FewSitesEmpty ==
    (DiagramEnded /\ Len(sites) < 4)
        => (DiagramReturned /\ cells = << >> /\ ~hull.invoked)

EqualWeights == \A j, k \in 1 .. Len(sites) : sites[j].weight = sites[k].weight

\* twice the signed area of the triangle (s, e, p), on plain coordinates
Cross2(px, py, sx, sy, ex, ey) ==
    RSub(RMul(RSub(ex, sx), RSub(py, sy)), RMul(RSub(ey, sy), RSub(px, sx)))

\* the point (px, py) is not in the interior of the convex hull of the cell's
\* vertices: some line through it has all of them on one side
NotStrictlyInside(px, py, cell) ==
    \/ \A v \in 1 .. Len(cell) : VX(cell[v]) = px /\ VY(cell[v]) = py
    \/ \E v \in 1 .. Len(cell) :
          /\ ~(VX(cell[v]) = px /\ VY(cell[v]) = py)
          /\ \/ \A u \in 1 .. Len(cell) :
                   RLe(Num(0), Cross2(VX(cell[u]), VY(cell[u]), px, py,
                                      VX(cell[v]), VY(cell[v])))
             \/ \A u \in 1 .. Len(cell) :
                   RLe(Cross2(VX(cell[u]), VY(cell[u]), px, py,
                              VX(cell[v]), VY(cell[v])), Num(0))

\* C5: with equal weights the diagram returned by computePowerDiagram is the
\* ordinary Voronoi diagram: every cell vertex is at least as close to its own
\* site as to any other site, and no other site lies in the interior of a
\* site's cell.
C5_EqualWeightsVoronoi ==
    (pdImpl = "power_diagram" /\ DiagramReturned /\ EqualWeights)
        => \A k \in 1 .. Len(cells) :
              /\ IsCellOf(cells[k], k)
              /\ \A j \in 1 .. Len(sites) :
                    j # k => NotStrictlyInside(sites[j].x, sites[j].y, cells[k])

\* C5 witness: four equally weighted sites in general position, one of which
\* has a cell of three distinct vertices.
C5_Witness ==
    /\ pdImpl = "power_diagram" /\ DiagramReturned /\ EqualWeights
    /\ Len(sites) >= 4 /\ Len(cells) = Len(sites)
    /\ \E k \in 1 .. Len(cells) : Cardinality(Range(cells[k])) >= 3

\* the corners of the quadrant of the bounding square around Scenario A's k-th site
QuadrantCorners(k) ==
    LET lox == IF sites[k].x = Num(0) THEN -5 ELSE 5
        loy == IF sites[k].y = Num(0) THEN -5 ELSE 5
    IN  {MkPoint2D(<<lox, loy>>), MkPoint2D(<<lox + 10, loy>>),
         MkPoint2D(<<lox + 10, loy + 10>>), MkPoint2D(<<lox, loy + 10>>)}

\* C6 (as claimed): on Scenario A the pipeline ends with 4 cells, the
\* quadrants of the bounding square, each around its own site.
C6_ScenarioAQuadrants ==
    (pdImpl = "power_diagram" /\ sites = ScenarioASites /\ pdPc \in {"done", "threw"})
        => /\ pdPc = "done"
           /\ Len(cells) = 4
           /\ \A k \in 1 .. 4 : Range(cells[k]) = QuadrantCorners(k)

\* in or on the bounding polygon, for either point representation
InBounding(v) ==
    IF pdImpl = "power_diagram" THEN InOrOn(v, boundingPolygon)
    ELSE InOrOn([x |-> v[1], y |-> v[2]],
                [k \in 1 .. Len(boundingPolygon) |->
                    [x |-> boundingPolygon[k][1], y |-> boundingPolygon[k][2]]])

\* C8 (as claimed): once the pipeline has its cells, every vertex of every
\* cell lies inside or on the bounding polygon.
C8_CellsClipped ==
    (DiagramReturned /\ pdPc \in {"draw", "done"})
        => \A k \in 1 .. Len(cells) : \A v \in 1 .. Len(cells[k]) : InBounding(cells[k][v])

\* C9 (as claimed): the rendering of a diagram with an empty cell (a site of
\* a non-degenerate input that touches no lower face) does not throw.
C9_EmptyCellHandled ==
    ~(/\ pdImpl = "power_diagram" /\ pdPc = "threw"
      /\ Len(sites) >= 4 /\ NonDegenerate(sites)
      /\ hull.invoked /\ ~hull.threw
      /\ pdK < Len(cells) /\ Len(cells[pdK + 1]) = 0)

\* ------------------------------------------------------- driver properties

\* compute() has returned or thrown
RelaxEnded == rPc \in {"done", "threw"}

\* the hull call compute() is about to make, if any, has an outcome: a list
\* of faces or an error
CalleeHasOutcome ==
    /\ (rPc = "call" /\ Len(thisSites) >= 4) =>
          /\ initialSites(Len(thisSites)) # {}
          /\ \A initial \in initialSites(Len(thisSites)) :
                qh(MapSeq(initial, transformedSite)) # {}
    /\ (rPc = "diagram" /\ Len(rAdapted) >= 4) =>
          qh(MapSeq(rAdapted, transformedSite)) # {}

\* C7: compute() terminates, every call it makes having an outcome; it begins
\* at most IMAX loop bodies; it begins one only while fewer than IMAX have
\* begun and the error of the last one is not below ethreshold; an error below
\* ethreshold ends it at once; and it returns only with an error below
\* ethreshold or after IMAX loop bodies.
C7_ComputeTerminates ==
    /\ <>RelaxEnded
    /\ []CalleeHasOutcome
    /\ [](rIterations <= IMAX)
    /\ [][rIterations' # rIterations
            => (rIterations < IMAX /\ ~RLt(rError, thisEthreshold))]_vars
    /\ [][(rPc = "test" /\ RLt(rError, thisEthreshold)) => rPc' = "done"]_vars
    /\ [](rPc = "done" => (RLt(rError, thisEthreshold) \/ rIterations = IMAX))

\* C7 witness: a driver of four sites has returned after all IMAX loop bodies,
\* the last error not below the threshold.
C7_Witness ==
    /\ rPc = "done" /\ rIterations = IMAX
    /\ Len(thisSites) >= 4
    /\ ~RLt(rError, thisEthreshold)

\* C11: from the second iteration on, the site list that is adapted is the
\* adapted list of the iteration before: positions and weights carry forward
C11_SitesCarryForward ==
    [][(rPc = "adapt" /\ rIterations >= 2 /\ rPc' = "diagram")
          => rAdapted' = adaptPositionsAndWeights(rAdapted, rDiagram).sites]_vars

\* ------------------------------------------------------- parallel pairs

\* computeIntersection's denom for the subject edge (start, end)
intersectionDenom(start, end, edgeStart, edgeEnd) ==
    RSub(RMul(RSub(end.x, start.x), RSub(edgeEnd.y, edgeStart.y)),
         RMul(RSub(end.y, start.y), RSub(edgeEnd.x, edgeStart.x)))

\* the divisor of polygonIntersect's ua for the subject edge (c, d)
intersectDivisor(c, d, pa, pb) ==
    RSub(RMul(RSub(pb[2], pa[2]), RSub(d[1], c[1])),
         RMul(RSub(pb[1], pa[1]), RSub(d[2], c[2])))

\* the element before element k of a ring of m elements
PrevIdx(k, m) == IF k = 1 THEN m ELSE k - 1

\* the pass clipPolygon is about to run pushes computeIntersection's value
\* for a subject edge parallel to the clip edge
ClipPolygonPushesParallel ==
    /\ pc = "loop" /\ impl = "clipPolygon" /\ clipI < Len(clippingBoundary)
    /\ \E k \in 1 .. Len(outputList) :
          LET E == outputList[k]
              S == outputList[PrevIdx(k, Len(outputList))]
              edgeStart == clippingBoundary[clipI + 1]
              edgeEnd == clippingBoundary[((clipI + 1) % Len(clippingBoundary)) + 1]
          IN  /\ inside(E, edgeStart, edgeEnd) # inside(S, edgeStart, edgeEnd)
              /\ intersectionDenom(S, E, edgeStart, edgeEnd) = Num(0)

\* the pass polygonClip is about to run pushes polygonIntersect's value for
\* a subject edge parallel to the clip edge
PolygonClipPushesParallel ==
    /\ pc = "loop" /\ impl = "polygonClip" /\ clipI < clipN
    /\ clipA # Undefined /\ At(clippingBoundary, clipI + 1) # Undefined
    /\ \E j \in 1 .. (Len(outputList) - (IF closed THEN 1 ELSE 0)) :
          LET m == Len(outputList) - (IF closed THEN 1 ELSE 0)
              d == outputList[j]
              c == outputList[PrevIdx(j, m)]
              pb == At(clippingBoundary, clipI + 1)
          IN  /\ polygonInside(d, clipA, pb) # polygonInside(c, clipA, pb)
              /\ intersectDivisor(c, d, clipA, pb) = Num(0)
              /\ IsFinite(polygonIntersect(c, d, clipA, pb)[1])

CX(v) == IF impl = "clipPolygon" THEN v.x ELSE v[1]

CY(v) == IF impl = "clipPolygon" THEN v.y ELSE v[2]

\* subject edge k and clip edge j of the call are parallel (and neither is a point)
ParallelEdges(k, j) ==
    LET s1 == polygon[k]
        s2 == polygon[(k % Len(polygon)) + 1]
        c1 == clippingBoundary[j]
        c2 == clippingBoundary[(j % Len(clippingBoundary)) + 1]
    IN  /\ s1 # s2 /\ c1 # c2
        /\ RSub(RMul(RSub(CX(s2), CX(s1)), RSub(CY(c2), CY(c1))),
                RMul(RSub(CY(s2), CY(s1)), RSub(CX(c2), CX(c1)))) = Num(0)

PassEdge(k) ==
    IF impl = "clipPolygon"
    THEN <<clippingBoundary[k + 1], clippingBoundary[((k + 1) % Len(clippingBoundary)) + 1]>>
    ELSE <<clippingBoundary[PrevIdx(k + 1, clipN)], clippingBoundary[k + 1]>>

\* the number of passes of the running clipper
PassCount == IF impl = "clipPolygon" THEN Len(clippingBoundary) ELSE clipN

\* vertex v is strictly on the outer side of the line through the edge
StrictlyOutside(v, edge) ==
    RLt(RMul(RSub(CX(edge[2]), CX(edge[1])), RSub(CY(v), CY(edge[1]))),
        RMul(RSub(CY(edge[2]), CY(edge[1])), RSub(CX(v), CX(edge[1])))) = (impl = "clipPolygon")
        /\ RMul(RSub(CX(edge[2]), CX(edge[1])), RSub(CY(v), CY(edge[1])))
              # RMul(RSub(CY(edge[2]), CY(edge[1])), RSub(CX(v), CX(edge[1])))

\* the subject of the call lies entirely outside one clip edge
SubjectOutsideAnEdge ==
    /\ Len(polygon) >= 3 /\ Len(clippingBoundary) >= 3
    /\ \E k \in 0 .. PassCount - 1 :
          \A v \in 1 .. Len(polygon) : StrictlyOutside(polygon[v], PassEdge(k))

\* C13: a clip of a subject that lies entirely outside one clip edge ends
\* without throwing and returns the empty polygon
C13_OutsideGivesEmpty ==
    (pc \in {"done", "threw"} /\ SubjectOutsideAnEdge)
        => (pc = "done" /\ Len(outputList) = 0)

\* ------------------------------------------------------- lower envelope

\* the three lifted points of hull face f
HullTriangle(f) == [v \in 1 .. 3 |-> dualPoints[hull.faces[f][v]]]

\* the z of the cross product of (p2 - p1) and (p3 - p1)
NormalZ(tri) == CrossV(Vec(tri[1], tri[2]), Vec(tri[1], tri[3]))[3]

\* the hull faces whose normal has z < 0
LowerIdx == {f \in 1 .. Len(hull.faces) : RLt(NormalZ(HullTriangle(f)), Num(0))}

\* the cell vertex a face gives: the projected pole of its plane
FacePole(tri) == mapTo2D(delta(calculatePlaneCoefficients(tri[1], tri[2], tri[3])))

\* computePowerDiagram of power_diagram.ts has filtered the hull's faces
LowerFacesKnown ==
    pdImpl = "power_diagram" /\ pdPc \in {"cells", "render", "draw", "done"}

\* C14: the lower envelope is exactly the hull faces whose normal has z < 0,
\* in hull order, and every vertex of every cell is the projected pole of
\* such a face: a face with normal z = 0 or z > 0 gives no cell a vertex
C14_LowerEnvelope ==
    LowerFacesKnown
        => /\ lower_faces = KeepIdx([f \in 1 .. Len(hull.faces) |-> HullTriangle(f)], LowerIdx, 1)
           /\ \A k \in 1 .. Len(cells) : \A v \in 1 .. Len(cells[k]) :
                 \E f \in LowerIdx : cells[k][v] = FacePole(HullTriangle(f))

\* a returned diagram whose hull has a face with normal z < 0, a vertical
\* face (z = 0) and a face with z > 0, and a cell with a vertex
C14_Witness ==
    /\ LowerFacesKnown /\ DiagramReturned
    /\ LowerIdx # {}
    /\ \E f \in 1 .. Len(hull.faces) : NormalZ(HullTriangle(f)) = Num(0)
    /\ \E f \in 1 .. Len(hull.faces) : RGt(NormalZ(HullTriangle(f)), Num(0))
    /\ \E k \in 1 .. Len(cells) : Len(cells[k]) > 0

\* ------------------------------------------------------- cells from faces

\* the lower-envelope faces with a vertex at the (x, y) of sites[k]
TouchIdx(k) ==
    {f \in 1 .. Len(lower_faces) :
        \E v \in 1 .. 3 : lower_faces[f][v].x = sites[k].x /\ lower_faces[f][v].y = sites[k].y}

\* the faces of a sequence of faces, replaced by their projected poles
Poles(faces) == [f \in 1 .. Len(faces) |-> FacePole(faces[f])]

\* C15: the cell of each site is the sequence of projected poles of the lower
\* faces with a vertex at the site's (x, y), one per face, in hull order; the
\* returned diagram has such a cell for every site
C15_CellFromTouchingFaces ==
    LowerFacesKnown
        => /\ \A k \in 1 .. Len(cells) :
                 cells[k] = Poles(KeepIdx(lower_faces, TouchIdx(k), 1))
           /\ DiagramReturned => Len(cells) = Len(sites)

\* a returned diagram with a cell of two or more vertices for a site that
\* some lower face does not touch
C15_Witness ==
    /\ LowerFacesKnown /\ DiagramReturned
    /\ \E k \in 1 .. Len(cells) :
          /\ Len(cells[k]) >= 2
          /\ \E f \in 1 .. Len(lower_faces) : f \notin TouchIdx(k)

\* ------------------------------------------------------- division by gamma

\* the hull faces whose plane computation would divide by zero
ZeroGammaIdx ==
    {f \in 1 .. Len(hull.faces) :
        planeGamma(HullTriangle(f)[1], HullTriangle(f)[2], HullTriangle(f)[3]) = Num(0)}

LiftWeights == {-4, -1, 1, 9}

\* the k-th grid position, row by row
GridPosition(k) == <<k % (SiteGrid + 1), k \div (SiteGrid + 1)>>

\* site lists of 0..MaxSites sites at the first grid positions, of any weights
LiftSiteLists ==
    UNION {{[k \in 1 .. m |-> MkSite(GridPosition(k), ws[k])] : ws \in [1 .. m -> LiftWeights]} :
           m \in 0 .. MaxSites}

\* a call of either computePowerDiagram with one of these site lists
InitLift ==
    /\ pdImpl \in {"power_diagram", "WeightedVoronoi"}
    /\ sites \in LiftSiteLists
    /\ boundingPolygon = (IF pdImpl = "power_diagram"
                          THEN MapSeq(GridBounding, MkPoint2D)
                          ELSE MapSeq(GridBounding, MkPoint))
    /\ dualPoints = << >>
    /\ hull = [invoked |-> FALSE, threw |-> FALSE, faces |-> << >>]
    /\ lower_faces = << >>
    /\ cells = << >>
    /\ pdK = 0
    /\ pdPc = "call"
    /\ IdleClip
    /\ IdleRelax
    /\ IdleFlood
    /\ IdleTrace
    /\ IdleSweep

\* the calls up to the hull routine: the lifting of the sites
NextLift ==
    \/ PDLift /\ UNCHANGED <<clipVars, relaxVars, floodVars, traceVars, sweepVars>>
    \/ WVCall /\ UNCHANGED <<clipVars, relaxVars, floodVars, traceVars, sweepVars>>

SpecLift == InitLift /\ [][NextLift]_vars

\* the height x^2 + y^2 - weight of a lifted site
LiftHeight(site) == RSub(RAdd(Sq(site.x), Sq(site.y)), site.weight)

\* C17 (as claimed): the lifted list has the length and order of the sites,
\* and the lifted point of each site, of negative weight too, is
\* (x, y, x^2 + y^2 - weight), a number that is not NaN
C17_LiftWellDefined ==
    pdPc = "qh"
        => /\ Len(dualPoints) = Len(sites)
           /\ \A k \in 1 .. Len(dualPoints) :
                 /\ dualPoints[k].x = sites[k].x /\ dualPoints[k].y = sites[k].y
                 /\ ~IsNaN(dualPoints[k].z)
                 /\ dualPoints[k].z = LiftHeight(sites[k])

\* ------------------------------------------------------- the callers' arrays

\* a call of any of the entry points
InitCalls == InitClip \/ InitPD \/ InitRelax

NextCalls == NextClip \/ NextPD \/ NextRelax

SpecCalls == InitCalls /\ [][NextCalls]_vars

\* C18: no step of clipPolygon, of computePowerDiagram or of compute()
\* changes the site list or the bounding / clip polygon the caller provided
C18_InputsUnchanged ==
    [][/\ polygon' = polygon /\ clippingBoundary' = clippingBoundary
       /\ sites' = sites /\ boundingPolygon' = boundingPolygon
       /\ thisSites' = thisSites /\ thisOmega' = thisOmega]_vars

\* clipPolygon has returned a polygon that differs from the subject it was
\* given, for a clip polygon of three or more vertices
C18_Witness ==
    /\ pc = "done" /\ impl = "clipPolygon"
    /\ Len(clippingBoundary) >= 3
    /\ Len(outputList) > 0 /\ outputList # polygon

\* ------------------------------------------------------- cells the driver reads

\* C19: when adaptPositionsAndWeights or calculateTotalError is about to read
\* diagram[i] for every site index i, the diagram has a cell at each index
C19_CellForEverySite ==
    /\ rPc = "adapt" => Len(rDiagram) >= Len(thisSites)
    /\ rPc = "error" => Len(rDiagram) >= Len(rAdapted)

\* ------------------------------------------------------- expand_influence

\* the grids have 2 .. GridWidth columns of one node
GridWidth == 8

\* a run whose queue outgrows MaxQueue is cut off
MaxQueue == 6

GRID_RESOLUTION == 8

\* the populations of the towns: cbrt(population + 30) is 4, 5 or Infinity
Populations == {Num(34), Num(95), Infinity}

\* the influence a node may carry from an earlier call
PriorInfluences == {Norm(39, 10), Num(100)}

\* Node.data === null
NullData == [set |-> FALSE, influence |-> NaN, town |-> "none"]

both_directions ==
    << [x |-> 1, y |-> 1], [x |-> 1, y |-> -1], [x |-> -1, y |-> 1], [x |-> -1, y |-> -1],
       [x |-> 0, y |-> 1], [x |-> 1, y |-> 0], [x |-> 0, y |-> -1], [x |-> -1, y |-> 0] >>

\* this.grid?.[x]?.[y] is a node
HasNode(grid, pos) ==
    /\ pos.x >= 0 /\ pos.x < Len(grid)
    /\ pos.y >= 0 /\ pos.y < Len(grid[pos.x + 1])

DataAt(grid, pos) == grid[pos.x + 1][pos.y + 1]

SetData(grid, pos, data) == [grid EXCEPT ![pos.x + 1][pos.y + 1] = data]

\* Map.node_neighbours(node) with diagonals: the positions of the nodes
\* around node.pos that the grid has, in the order of both_directions
node_neighbours(grid, pos) ==
    LET Step(dir) == [x |-> pos.x + dir.x, y |-> pos.y + dir.y]
        Has(p) == HasNode(grid, p)
    IN  Filter(MapSeq(both_directions, Step), Has)

\* Math.round of a finite number: the nearest integer, halves upwards
Round(a) == (2 * a[1] + a[2]) \div (2 * a[2])

\* Math.cbrt, on the numbers of the model (cubes of integers, infinities, NaN)
Cbrt(w) ==
    IF w[2] = 0 THEN w
    ELSE Num(Sgn(w[1]) * (CHOOSE r \in 0 .. Abs(w[1]) : r * r * r = Abs(w[1])))

\* Town.influence
TownInfluence(town) == Cbrt(RAdd(town.population, Num(30)))

\* euclidean_distance of a node position and a point
euclidean_distance(p1, p2) ==
    Sqrt(RAdd(RMul(RSub(Num(p1.x), p2.x), RSub(Num(p1.x), p2.x)),
              RMul(RSub(Num(p1.y), p2.y), RSub(Num(p1.y), p2.y))))

\* get_noise: a finite number in 0 .. 1 that the point determines
get_noise(x, y) == Norm((3 * x + y) % 5, 4)

\* steepness: node_cost and neighbour_cost are both the noise at the neighbour
steepness(nb) ==
    RMul(RAbs(RSub(get_noise(nb.x * GRID_RESOLUTION, nb.y * GRID_RESOLUTION),
                   get_noise(nb.x * GRID_RESOLUTION, nb.y * GRID_RESOLUTION))),
         Num(10))

\* cost = dist + dist * steepness
travelCost(nb, town) ==
    RAdd(euclidean_distance(nb, town.pos),
         RMul(euclidean_distance(nb, town.pos), steepness(nb)))

\* new_influence = node.data!.influence - cost * 0.1
new_influence(grid, node, nb, town) ==
    RSub(DataAt(grid, node).influence, RMul(travelCost(nb, town), Norm(1, 10)))

\* old_influence = neighbour.data?.influence || 0
old_influence(grid, nb) ==
    IF DataAt(grid, nb).set /\ Truthy(DataAt(grid, nb).influence)
    THEN DataAt(grid, nb).influence
    ELSE Num(0)

\* new_influence > 0 && new_influence >= old_influence
Requeues(new, old) == RGt(new, Num(0)) /\ RLe(old, new)

\* the body of the for loop for one neighbour
FloodVisit(st, node, nb, town) ==
    IF Requeues(new_influence(st.grid, node, nb, town), old_influence(st.grid, nb))
    THEN [grid |-> SetData(st.grid, nb,
                           [set |-> TRUE,
                            influence |-> new_influence(st.grid, node, nb, town),
                            town |-> "town"]),
          queue |-> Append(st.queue, nb)]
    ELSE st

\* for (const neighbour of neighbours), from the k-th neighbour on
RECURSIVE FloodNeighbours(_, _, _, _, _)
FloodNeighbours(st, node, nbs, k, town) ==
    IF k > Len(nbs) THEN st
    ELSE FloodNeighbours(FloodVisit(st, node, nbs[k], town), node, nbs, k + 1, town)

\* a grid of w columns of one node, none with data
EmptyGrid(w) == [x \in 1 .. w |-> <<NullData>>]

\* the grids of w columns: no node has data, or one node has data of
\* another town
Grids(w) ==
    {EmptyGrid(w)} \cup
    {SetData(EmptyGrid(w), [x |-> px, y |-> 0],
             [set |-> TRUE, influence |-> v, town |-> "other"]) :
        px \in 0 .. w - 1, v \in PriorInfluences}

InitFlood ==
    /\ \E w \in 2 .. GridWidth :
          /\ fGrid \in Grids(w)
          /\ \E tx \in 0 .. w - 1, pop \in Populations :
                fTown = [population |-> pop, pos |-> [x |-> Num(tx), y |-> Num(0)]]
    /\ fQueue = << >>
    /\ fLast = [x |-> 0, y |-> 0]
    /\ fPc = "call"
    /\ fTurn = 0
    /\ IdleClip
    /\ IdlePD
    /\ IdleRelax
    /\ IdleTrace
    /\ IdleSweep

\* the position of town_node
TownNode(town) == [x |-> Round(town.pos.x), y |-> Round(town.pos.y)]

\* expand_influence up to the while loop
FloodCall ==
    /\ fPc = "call"
    /\ IF HasNode(fGrid, TownNode(fTown))
       THEN /\ fGrid' = SetData(fGrid, TownNode(fTown),
                                [set |-> TRUE, influence |-> TownInfluence(fTown),
                                 town |-> "town"])
            /\ fQueue' = <<TownNode(fTown)>>
            /\ fLast' = TownNode(fTown)
            /\ fPc' = "loop"
       ELSE /\ fPc' = "threw"
            /\ UNCHANGED <<fGrid, fQueue, fLast>>
    /\ fTurn' = 1 - fTurn
    /\ UNCHANGED fTown

\* the state after one body of the while loop that leaves st
FloodNodeDone(st) ==
    /\ fGrid' = st.grid
    /\ fQueue' = st.queue
    /\ fPc' = IF Len(st.queue) > MaxQueue THEN "overflow" ELSE "loop"

\* one body of the while loop: queue.shift() and the for loop
FloodNode ==
    /\ fPc = "loop"
    /\ Len(fQueue) > 0
    /\ fLast' = Head(fQueue)
    /\ FloodNodeDone(FloodNeighbours([grid |-> fGrid, queue |-> Tail(fQueue)],
                                     Head(fQueue),
                                     node_neighbours(fGrid, Head(fQueue)), 1, fTown))
    /\ fTurn' = 1 - fTurn
    /\ UNCHANGED fTown

\* queue.length is 0: the loop ends and trace_boundary is called
FloodReturn ==
    /\ fPc = "loop"
    /\ Len(fQueue) = 0
    /\ fPc' = "trace"
    /\ fTurn' = 1 - fTurn
    /\ UNCHANGED <<fGrid, fTown, fQueue, fLast>>

NextFlood ==
    \/ FloodCall /\ UNCHANGED <<clipVars, pdVars, relaxVars, traceVars, sweepVars>>
    \/ FloodNode /\ UNCHANGED <<clipVars, pdVars, relaxVars, traceVars, sweepVars>>
    \/ FloodReturn /\ UNCHANGED <<clipVars, pdVars, relaxVars, traceVars, sweepVars>>

\* expand_influence takes a step from a position before its return
FloodAdvance ==
    /\ fPc \in {"call", "loop"}
    /\ fTurn' = 1 - fTurn

\* expand_influence is one sequential call: while it has not ended it keeps
\* running
SpecFlood == InitFlood /\ [][NextFlood]_vars /\ WF_fTurn(FloodAdvance)

\* C20: the queue of expand_influence becomes empty and the loop ends (runs
\* cut off at MaxQueue are left out)
C20_QueueEmpties == <>(fPc = "trace" \/ fPc = "overflow")

\* ------------------------------------------------------- trace_boundary

\* the populations of the towns whose boundary is traced: cbrt(population + 30)
\* is 0, 4 or 5
TracePopulations == {Num(-30), Num(34), Num(95)}

axial == << [x |-> 0, y |-> 1], [x |-> 1, y |-> 0], [x |-> 0, y |-> -1], [x |-> -1, y |-> 0] >>

\* neighbour.data !== null
Influenced(grid, pos) == DataAt(grid, pos).set

\* map.node_neighbours(initial_node, true).filter(neighbour => neighbour.data !== null)
InfluencedNeighbours(grid, pos) ==
    LET Has(p) == Influenced(grid, p)
    IN  Filter(node_neighbours(grid, pos), Has)

\* Map.node_has_foreign_neighbours(node, false): an axial direction has no
\* node, a node without data or a node of another town
node_has_foreign_neighbours(grid, pos) ==
    \E k \in 1 .. Len(axial) :
       \/ ~HasNode(grid, [x |-> pos.x + axial[k].x, y |-> pos.y + axial[k].y])
       \/ ~Influenced(grid, [x |-> pos.x + axial[k].x, y |-> pos.y + axial[k].y])
       \/ DataAt(grid, [x |-> pos.x + axial[k].x, y |-> pos.y + axial[k].y]).town
             # DataAt(grid, pos).town

\* the point of a node position
PointOf(pos) == [x |-> Num(pos.x), y |-> Num(pos.y)]

\* the sort of the tracing loop puts nbs[i] before nbs[j]: it is further
\* from initial_node, or as far and earlier in the list
SortsBefore(nbs, i, j, initial) ==
    \/ RGt(euclidean_distance(nbs[i], PointOf(initial)),
           euclidean_distance(nbs[j], PointOf(initial)))
    \/ /\ euclidean_distance(nbs[i], PointOf(initial))
             = euclidean_distance(nbs[j], PointOf(initial))
       /\ i < j

\* .sort((a, b) => euclidean_distance(b.pos, initial_node.pos)
\*                 - euclidean_distance(a.pos, initial_node.pos))
SortByDistance(nbs, initial) ==
    [r \in 1 .. Len(nbs) |->
        nbs[CHOOSE i \in 1 .. Len(nbs) :
               Cardinality({j \in 1 .. Len(nbs) : SortsBefore(nbs, j, i, initial)}) = r - 1]]

\* the neighbours the tracing loop may move to
TraceCandidates(grid, node, initial, explored) ==
    LET Keep(p) ==
            /\ Influenced(grid, p)
            /\ DataAt(grid, p).town = "town"
            /\ (p \notin explored \/ p = initial)
            /\ (node_has_foreign_neighbours(grid, p) \/ p = initial)
    IN  SortByDistance(Filter(node_neighbours(grid, node), Keep), initial)

InitTrace ==
    /\ \E w \in 2 .. GridWidth :
          /\ fGrid \in Grids(w)
          /\ \E tx \in 0 .. w - 1, pop \in TracePopulations :
                fTown = [population |-> pop, pos |-> [x |-> Num(tx), y |-> Num(0)]]
    /\ fQueue = << >>
    /\ fLast = [x |-> 0, y |-> 0]
    /\ fPc = "call"
    /\ fTurn = 0
    /\ IdleClip
    /\ IdlePD
    /\ IdleRelax
    /\ IdleTrace
    /\ IdleSweep

\* return trace_boundary(town, last_node, map, ctx): entry
TraceCall ==
    /\ fPc = "trace"
    /\ tPc = "idle"
    /\ tInitial' = fLast
    /\ tExplored' = {}
    /\ tPath' = << >>
    /\ tPc' = "skip"
    /\ tTurn' = 1 - tTurn
    /\ UNCHANGED tNode

\* the rest of one body of the first loop, for the influenced neighbours nbs
TraceSkipTo(nbs) ==
    IF Len(nbs) > 1
    THEN /\ tPc' = "walk"
         /\ tNode' = tInitial
         /\ UNCHANGED tInitial
    ELSE /\ tInitial' = (IF Len(nbs) = 0 THEN NoNode ELSE nbs[1])
         /\ UNCHANGED <<tPc, tNode>>

\* one body of the first loop; node_neighbours reads the pos of initial_node
TraceSkip ==
    /\ tPc = "skip"
    /\ IF tInitial = NoNode
       THEN /\ tPc' = "threw"
            /\ UNCHANGED <<tInitial, tNode>>
       ELSE TraceSkipTo(InfluencedNeighbours(fGrid, tInitial))
    /\ tTurn' = 1 - tTurn
    /\ UNCHANGED <<tExplored, tPath>>

\* the rest of one body of the tracing loop, for exploration_path after the
\* push and the sorted neighbours
TraceWalkTo(path, nbs) ==
    IF Len(nbs) = 0
    THEN /\ tPath' = (IF Len(path) >= 2 THEN SubSeq(path, 1, Len(path) - 2) ELSE << >>)
         /\ tNode' = (IF Len(path) >= 2 THEN path[Len(path) - 1] ELSE NoNode)
         /\ UNCHANGED tPc
    ELSE /\ tPath' = path
         /\ tNode' = nbs[1]
         /\ tPc' = (IF nbs[1] = tInitial THEN "done" ELSE "walk")

\* one body of the tracing loop
TraceWalk ==
    /\ tPc = "walk"
    /\ IF tNode = NoNode
       THEN /\ tPc' = "done"
            /\ UNCHANGED <<tNode, tExplored, tPath>>
       ELSE /\ tExplored' = tExplored \cup {tNode}
            /\ TraceWalkTo(Append(tPath, tNode),
                           TraceCandidates(fGrid, tNode, tInitial, tExplored \cup {tNode}))
    /\ tTurn' = 1 - tTurn
    /\ UNCHANGED tInitial

NextTrace ==
    \/ FloodCall /\ UNCHANGED <<clipVars, pdVars, relaxVars, traceVars, sweepVars>>
    \/ FloodNode /\ UNCHANGED <<clipVars, pdVars, relaxVars, traceVars, sweepVars>>
    \/ FloodReturn /\ UNCHANGED <<clipVars, pdVars, relaxVars, traceVars, sweepVars>>
    \/ TraceCall /\ UNCHANGED <<clipVars, pdVars, relaxVars, floodVars, sweepVars>>
    \/ TraceSkip /\ UNCHANGED <<clipVars, pdVars, relaxVars, floodVars, sweepVars>>
    \/ TraceWalk /\ UNCHANGED <<clipVars, pdVars, relaxVars, floodVars, sweepVars>>

\* trace_boundary takes a step from a position before its return
TraceAdvance ==
    /\ \/ fPc = "trace" /\ tPc = "idle"
       \/ tPc \in {"skip", "walk"}
    /\ tTurn' = 1 - tTurn

\* expand_influence and the trace_boundary it calls are one sequential call
SpecTrace ==
    InitTrace /\ [][NextTrace]_vars /\ WF_fTurn(FloodAdvance) /\ WF_tTurn(TraceAdvance)

\* C21: once expand_influence calls trace_boundary, trace_boundary returns:
\* no loop runs for ever and no undefined node is read
C21_TraceReturns == (fPc = "trace") ~> (tPc = "done")

\* ------------------------------------------------------- diagram.ts

\* the sites of a sweep have x = 0 and y in 0 .. SweepGrid, and there are at
\* most MaxArcs of them
SweepGrid == 1

MaxArcs == 4

\* the weights of the sites of a sweep
SweepWeights == {Num(0), Num(3)}

SweepPoints ==
    {[x |-> Num(0), y |-> Num(y), weight |-> w] : y \in 0 .. SweepGrid, w \in SweepWeights}

\* distanceToSite2 of checkForCircleEvent: the roots findIntersection takes
\* are not rational in general, and the distance may be any number
CircleDistances == {NaN, Num(-1), Num(1), Num(2)}

\* the site or center of an event that has none
NullPoint == [x |-> NaN, y |-> NaN, weight |-> NaN]

\* new Arc(site)
NewArc(site) == [site |-> site, prev |-> 0, next |-> 0, circleEvent |-> 0, edge |-> 0]

\* the order a stable sort by ascending key gives: the indices of keys
StableOrder(keys) ==
    [r \in 1 .. Len(keys) |->
        CHOOSE i \in 1 .. Len(keys) :
           Cardinality({j \in 1 .. Len(keys) :
                           \/ RLt(RSub(keys[j], keys[i]), Num(0))
                           \/ keys[j] = keys[i] /\ j < i}) = r - 1]

\* this.sites.sort((a, b) => a.y - b.y)
SortSites(ss) ==
    [r \in 1 .. Len(ss) |-> ss[StableOrder([k \in 1 .. Len(ss) |-> ss[k].y])[r]]]

\* this.events.sort((a, b) => a.radius - b.radius)
SortEvents(evs) ==
    [r \in 1 .. Len(evs) |-> evs[StableOrder([k \in 1 .. Len(evs) |-> evs[k].radius])[r]]]

weightedDistance(p1, p2) ==
    RAdd(RSub(Sqrt(RAdd(RMul(RSub(p1.x, p2.x), RSub(p1.x, p2.x)),
                        RMul(RSub(p1.y, p2.y), RSub(p1.y, p2.y)))),
              p1.weight),
         p2.weight)

\* addParabolicArc: the while loop from index i (0-based) down; the i it ends with
RECURSIVE ArcScan(_, _, _, _)
ArcScan(arcs, beach, site, i) ==
    IF i >= 0 /\ RLt(weightedDistance(arcs[beach[i + 1]].site, site), Num(0))
    THEN ArcScan(arcs, beach, site, i - 1)
    ELSE i

\* this.beachLine.splice(i + 1, 0, newArc)
SpliceIn(beach, i, arc) ==
    SubSeq(beach, 1, i + 1) \o <<arc>> \o SubSeq(beach, i + 2, Len(beach))

\* this.beachLine[k], 0 for undefined
BeachAt(beach, k) == IF k >= 0 /\ k < Len(beach) THEN beach[k + 1] ELSE 0

\* arcs with the field next of arc a set, when a is an arc
SetNext(arcs, arc, other) ==
    IF arc = 0 THEN arcs ELSE [arcs EXCEPT ![arc].next = other]

SetPrev(arcs, arc, other) ==
    IF arc = 0 THEN arcs ELSE [arcs EXCEPT ![arc].prev = other]

\* addParabolicArc for a beach line that is not empty, the scan ending with i
ArcInsert(st, site, i) ==
    [st EXCEPT
       !.beach = SpliceIn(st.beach, i, Len(st.arcs) + 1),
       !.arcs = SetPrev(SetNext(Append(st.arcs,
                                       [NewArc(site) EXCEPT
                                          !.prev = BeachAt(st.beach, i),
                                          !.next = BeachAt(st.beach, i + 1)]),
                                BeachAt(st.beach, i), Len(st.arcs) + 1),
                        BeachAt(st.beach, i + 1), Len(st.arcs) + 1)]

\* addParabolicArc; newArc is the last of the arcs of the result
addParabolicArc(st, site) ==
    IF Len(st.beach) = 0
    THEN [st EXCEPT !.beach = <<Len(st.arcs) + 1>>, !.arcs = Append(st.arcs, NewArc(site))]
    ELSE ArcInsert(st, site, ArcScan(st.arcs, st.beach, site, Len(st.beach) - 1))

\* this.beachLine.indexOf(arc)
BeachIndexOf(beach, arc) ==
    IF \E k \in 1 .. Len(beach) : beach[k] = arc
    THEN (CHOOSE k \in 1 .. Len(beach) :
             beach[k] = arc /\ \A j \in 1 .. k - 1 : beach[j] # arc) - 1
    ELSE -1

\* this.beachLine.splice(index, 1); a negative index counts from the end
SpliceOut(beach, index) ==
    IF index >= 0
    THEN SubSeq(beach, 1, index) \o SubSeq(beach, index + 2, Len(beach))
    ELSE SubSeq(beach, 1, Len(beach) + index)
            \o SubSeq(beach, Len(beach) + index + 2, Len(beach))

removeParabolicArc(st, arc) ==
    [st EXCEPT
       !.beach = SpliceOut(st.beach, BeachIndexOf(st.beach, arc)),
       !.arcs = SetPrev(SetNext(st.arcs, st.arcs[arc].prev, st.arcs[arc].next),
                        st.arcs[arc].next, st.arcs[arc].prev),
       !.removals = Append(st.removals,
                           [arc |-> arc, index |-> BeachIndexOf(st.beach, arc)])]

\* checkForCircleEvent once distanceToSite2 is d
CircleEventFor(st, arc, d) ==
    IF RGt(d, Num(0))
    THEN [st EXCEPT
            !.arcs[arc].circleEvent = st.made + 1,
            !.events = SortEvents(Append(st.events,
                                         [id |-> st.made + 1, type |-> "circle",
                                          site |-> NullPoint, arc |-> arc, radius |-> d])),
            !.made = st.made + 1]
    ELSE st

\* checkForCircleEvent: the states it may leave
checkForCircleEvent(st, arc) ==
    IF arc = 0 \/ st.arcs[arc].prev = 0 \/ st.arcs[arc].next = 0
    THEN {st}
    ELSE {CircleEventFor(st, arc, d) : d \in CircleDistances}

\* the two checks that end handleSiteEvent and handleCircleEvent
CheckBoth(st, prevArc, nextArc) ==
    UNION {checkForCircleEvent(s1, nextArc) : s1 \in checkForCircleEvent(st, prevArc)}

\* handleSiteEvent once the arc is added
SiteEventChecks(st) ==
    CheckBoth(st, st.arcs[Len(st.arcs)].prev, st.arcs[Len(st.arcs)].next)

handleSiteEvent(st, event) == SiteEventChecks(addParabolicArc(st, event.site))

SetEdge(arcs, arc, e) == IF arc = 0 THEN arcs ELSE [arcs EXCEPT ![arc].edge = e]

\* handleCircleEvent up to removeParabolicArc: the vertex and the edges
CircleEdges(st, prevArc, nextArc) ==
    [st EXCEPT
       !.out = [vertices |-> st.out.vertices + 1,
                edges |-> st.out.edges + (IF prevArc # 0 THEN 1 ELSE 0)
                                       + (IF nextArc # 0 THEN 1 ELSE 0)],
       !.arcs = SetEdge(SetEdge(st.arcs, prevArc, st.out.edges + 1),
                        nextArc, st.out.edges + (IF prevArc # 0 THEN 1 ELSE 0) + 1)]

handleCircleEvent(st, event) ==
    CheckBoth(removeParabolicArc(CircleEdges(st, st.arcs[event.arc].prev,
                                             st.arcs[event.arc].next),
                                 event.arc),
              st.arcs[event.arc].prev, st.arcs[event.arc].next)

\* a test that lets every circle event through
isAnyCircleEvent(event, arcs) == event.type = "circle"

\* event === event.arc?.circleEvent
isCurrentEvent(event, arcs) == event.id = arcs[event.arc].circleEvent

\* the site lists of at most n sites
RECURSIVE SweepSiteLists(_)
SweepSiteLists(n) ==
    IF n = 0 THEN {<< >>}
    ELSE SweepSiteLists(n - 1) \cup
         {Append(ss, p) : ss \in {l \in SweepSiteLists(n - 1) : Len(l) = n - 1},
                          p \in SweepPoints}

\* new WeightedVoronoiDiagram(sites)
InitSweep ==
    /\ wSites \in SweepSiteLists(MaxArcs) \ {<< >>}
    /\ wArcs = << >>
    /\ beachLine = << >>
    /\ wEvents = << >>
    /\ wMade = 0
    /\ wRemovals = << >>
    /\ wOut = [vertices |-> 0, edges |-> 0]
    /\ wPc = "call"
    /\ IdleClip
    /\ IdlePD
    /\ IdleRelax
    /\ IdleFlood
    /\ IdleTrace

\* the state of the diagram after the head of the events is shifted
SweepState ==
    [arcs |-> wArcs, beach |-> beachLine, events |-> Tail(wEvents), made |-> wMade,
     removals |-> wRemovals, out |-> wOut]

SweepBecomes(st) ==
    /\ wArcs' = st.arcs
    /\ beachLine' = st.beach
    /\ wEvents' = st.events
    /\ wMade' = st.made
    /\ wRemovals' = st.removals
    /\ wOut' = st.out

\* computeDiagram up to the while loop
SweepCall ==
    /\ wPc = "call"
    /\ wSites' = SortSites(wSites)
    /\ wEvents' = wEvents \o [k \in 1 .. Len(wSites) |->
                                 [id |-> wMade + k, type |-> "site",
                                  site |-> SortSites(wSites)[k], arc |-> 0,
                                  radius |-> Num(0)]]
    /\ wMade' = wMade + Len(wSites)
    /\ wPc' = "loop"
    /\ UNCHANGED <<wArcs, beachLine, wRemovals, wOut>>

\* one body of the while loop for a site event
SweepSite ==
    /\ wPc = "loop"
    /\ Len(wEvents) > 0
    /\ Head(wEvents).type = "site"
    /\ \E st \in handleSiteEvent(SweepState, Head(wEvents)) : SweepBecomes(st)
    /\ UNCHANGED <<wSites, wPc>>

\* one body of the while loop for the circle event its arc holds
SweepCircle ==
    /\ wPc = "loop"
    /\ Len(wEvents) > 0
    /\ Head(wEvents).type = "circle"
    /\ isCurrentEvent(Head(wEvents), wArcs)
    /\ \E st \in handleCircleEvent(SweepState, Head(wEvents)) : SweepBecomes(st)
    /\ UNCHANGED <<wSites, wPc>>

\* one body of the while loop for a circle event its arc no longer holds
SweepStale ==
    /\ wPc = "loop"
    /\ Len(wEvents) > 0
    /\ Head(wEvents).type = "circle"
    /\ ~isCurrentEvent(Head(wEvents), wArcs)
    /\ wEvents' = Tail(wEvents)
    /\ UNCHANGED <<wSites, wArcs, beachLine, wMade, wRemovals, wOut, wPc>>

\* the events are exhausted: the edges are extended and computeDiagram returns
SweepReturn ==
    /\ wPc = "loop"
    /\ Len(wEvents) = 0
    /\ wPc' = "done"
    /\ UNCHANGED <<wSites, wArcs, beachLine, wEvents, wMade, wRemovals, wOut>>

NextSweep ==
    \/ SweepCall /\ UNCHANGED <<clipVars, pdVars, relaxVars, floodVars, traceVars>>
    \/ SweepSite /\ UNCHANGED <<clipVars, pdVars, relaxVars, floodVars, traceVars>>
    \/ SweepCircle /\ UNCHANGED <<clipVars, pdVars, relaxVars, floodVars, traceVars>>
    \/ SweepStale /\ UNCHANGED <<clipVars, pdVars, relaxVars, floodVars, traceVars>>
    \/ SweepReturn /\ UNCHANGED <<clipVars, pdVars, relaxVars, floodVars, traceVars>>

SpecSweep == InitSweep /\ [][NextSweep]_vars

\* the prev and next of every arc of beachLine are its neighbours in beachLine
LinksAgree ==
    \A k \in 1 .. Len(beachLine) :
       /\ wArcs[beachLine[k]].prev = BeachAt(beachLine, k - 2)
       /\ wArcs[beachLine[k]].next = BeachAt(beachLine, k)

\* C22: between the events of the sweep the links of the arcs agree with
\* beachLine, every call of removeParabolicArc found its arc in beachLine, and
\* no arc was removed twice
C22_BeachLineConsistent ==
    /\ LinksAgree
    /\ \A k \in 1 .. Len(wRemovals) : wRemovals[k].index >= 0
    /\ \A k \in 1 .. Len(wRemovals) : \A j \in 1 .. Len(wRemovals) :
          wRemovals[k].arc = wRemovals[j].arc => k = j
    /\ \A k \in 1 .. Len(beachLine) : \A j \in 1 .. Len(wRemovals) :
          beachLine[k] # wRemovals[j].arc

\* the sweep has ended after an arc was put between two others, two arcs were
\* removed and a circle event was passed over
C22_Witness ==
    /\ wPc = "done"
    /\ Len(wRemovals) >= 2
    /\ wMade > Len(wSites) + Len(wRemovals)
    /\ \E a \in 1 .. Len(wArcs) : \E b \in 1 .. Len(wArcs) :
          a < b /\ wArcs[a].site.weight = Num(3) /\ wArcs[b].site.weight = Num(0)

====
